---- MODULE Spec2Model ----
(***************************************************************************)
(* A model of the Istanbul rules engine (src/istanbul_game): the game      *)
(* state owned by GameState, the turn/phase machine TurnState, the         *)
(* per-tile state machines of tiles.py, and GameState.take_action, the     *)
(* single mutating entry point.  One step of the model is one call of      *)
(* GameState.take_action; a call either returns (accepted) or raises       *)
(* (rejected), and in both cases the state is what the code left behind.   *)
(***************************************************************************)
EXTENDS Integers, Sequences, FiniteSets, TLC

VARIABLES
    turn_state,                  \* TurnState: players, current_player_idx, current_phase, yield_required
    player_states,               \* GameState.player_states: Player -> PlayerState
    tile_states,                 \* GameState.tile_states: Tile -> TileState (with the subclass fields)
    outstanding_reward_choices,  \* GameState.outstanding_reward_choices
    family_member_acting,        \* GameState.family_member_acting
    completed,                   \* GameState.completed
    last,                        \* the latest take_action call: its action, whether it was accepted, the phase it was made in
    calls,                       \* the number of take_action calls made so far
    turn_log                     \* what the accepted calls of the current turn did so far

vars == <<turn_state, player_states, tile_states, outstanding_reward_choices,
          family_member_acting, completed, last, calls, turn_log>>

-----------------------------------------------------------------------------
(* constants.py *)

Good == {"RED", "BLUE", "GREEN", "YELLOW"}

Card == {"ONE_GOOD", "FIVE_LIRA", "EXTRA_MOVE", "NO_MOVE", "RETURN_ASSISTANT",
         "ARREST_FAMILY", "SELL_ANY", "DOUBLE_SULTAN", "DOUBLE_PO", "DOUBLE_DEALER"}

Player == <<"Red", "Green", "Blue", "Yellow", "White">>

\* The Tile enumeration, in declaration order
Tile == <<"GREAT_MOSQUE", "POST_OFFICE", "FABRIC_WAREHOUSE", "SMALL_MOSQUE",
          "FRUIT_WAREHOUSE", "POLICE_STATION", "FOUNTAIN", "SPICE_WAREHOUSE",
          "BLACK_MARKET", "CARAVANSARY", "SMALL_MARKET", "TEA_HOUSE",
          "SULTANS_PALACE", "LARGE_MARKET", "WAINWRIGHT", "GEMSTONE_DEALER">>

Tiles == {Tile[i] : i \in 1..16}

Location == 1..16

\* DEFAULT_LOCATIONS: Location(i) -> the i-th Tile; the location map of the games modelled
location_map == [l \in Location |-> Tile[l]]

\* location_map.inverse
location_map_inverse == [t \in Tiles |-> CHOOSE l \in Location : location_map[l] = t]

\* ROLL_LOCATIONS: the tile an NPC goes to for a given sum of two dice
ROLL_LOCATIONS ==
    <<"WAINWRIGHT", "FABRIC_WAREHOUSE", "SPICE_WAREHOUSE", "FRUIT_WAREHOUSE",
      "POST_OFFICE", "CARAVANSARY", "FOUNTAIN", "BLACK_MARKET", "TEA_HOUSE",
      "LARGE_MARKET", "SMALL_MARKET", "POLICE_STATION", "SULTANS_PALACE",
      "SMALL_MOSQUE", "GREAT_MOSQUE", "GEMSTONE_DEALER">>

-----------------------------------------------------------------------------
(* Counters (collections.Counter): functions to Nat; a key that is absent counts 0 *)

Count(c, k) == IF k \in DOMAIN c THEN c[k] ELSE 0

RECURSIVE SumOver(_, _)
SumOver(c, keys) ==
    IF keys = {} THEN 0
    ELSE LET k == CHOOSE x \in keys : TRUE
         IN  c[k] + SumOver(c, keys \ {k})

\* sum(counter.values())
Total(c) == SumOver(c, DOMAIN c)

-----------------------------------------------------------------------------
(* game.py: taxicab_dist *)

Abs(x) == IF x < 0 THEN -x ELSE x

\* taxicab_dist with a fault: the coordinates are taken from the location itself,
\* not from the location less one
taxicab_dist_from_one(loc1, loc2) ==
    Abs((loc1 \div 4) - (loc2 \div 4)) + Abs((loc1 % 4) - (loc2 % 4))

taxicab_dist(loc1, loc2) ==
    Abs(((loc1 - 1) \div 4) - ((loc2 - 1) \div 4))
  + Abs(((loc1 - 1) % 4) - ((loc2 - 1) % 4))

-----------------------------------------------------------------------------
(* tiles.py: the per-tile state machines.  Each operation takes the tile's  *)
(* state and returns [state, raised, result]: the state it leaves, whether  *)
(* it raised, and what it returned.                                         *)

\* TileState.__init__
TileState ==
    [governor |-> FALSE, smuggler |-> FALSE, assistants |-> {},
     family_members |-> {}, players |-> {}]

\* MosqueTileState.__init__
MosqueTileState(goods) ==
    [governor |-> FALSE, smuggler |-> FALSE, assistants |-> {},
     family_members |-> {}, players |-> {},
     available_tiles |-> [good \in goods |-> 2]]

\* PostOfficeTileState.__init__
PostOfficeTileState ==
    [governor |-> FALSE, smuggler |-> FALSE, assistants |-> {},
     family_members |-> {}, players |-> {}, position |-> 0]

\* CaravansaryTileState.__init__
CaravansaryTileState ==
    [governor |-> FALSE, smuggler |-> FALSE, assistants |-> {},
     family_members |-> {}, players |-> {},
     discard_pile |-> <<>>, awaiting_discard |-> FALSE]

\* WainwrightTileState.__init__
WainwrightTileState(extensions) ==
    [governor |-> FALSE, smuggler |-> FALSE, assistants |-> {},
     family_members |-> {}, players |-> {}, extensions |-> extensions]

\* Python's None where a Counter is expected (a Counter of the model is never empty)
None == <<>>

\* Python's None for the gemstone dealer's cost (a cost is never 0 otherwise)
NoCost == 0

\* MarketTileState.__init__
MarketTileState(one_cost) ==
    [governor |-> FALSE, smuggler |-> FALSE, assistants |-> {},
     family_members |-> {}, players |-> {},
     one_cost |-> one_cost, expecting_demand |-> TRUE, demand |-> None]

\* SultansPalaceTileState.__init__
SultansPalaceTileState(init_advanced) ==
    [governor |-> FALSE, smuggler |-> FALSE, assistants |-> {},
     family_members |-> {}, players |-> {},
     required_count |-> IF ~init_advanced THEN 4 ELSE 5]

\* GemstoneDealerTileState.__init__
GemstoneDealerTileState(initial_cost) ==
    [governor |-> FALSE, smuggler |-> FALSE, assistants |-> {},
     family_members |-> {}, players |-> {}, cost |-> initial_cost]

\* initial_tile_state
initial_tile_state(tile, player_count) ==
    CASE tile \in {"FABRIC_WAREHOUSE", "FRUIT_WAREHOUSE", "POLICE_STATION", "FOUNTAIN",
                   "SPICE_WAREHOUSE", "BLACK_MARKET", "TEA_HOUSE"} -> TileState
      [] tile = "POST_OFFICE" -> PostOfficeTileState
      [] tile = "CARAVANSARY" -> CaravansaryTileState
      [] tile = "GREAT_MOSQUE" -> MosqueTileState({"BLUE", "YELLOW"})
      [] tile = "SMALL_MOSQUE" -> MosqueTileState({"RED", "GREEN"})
      [] tile = "SMALL_MARKET" -> MarketTileState(2)
      [] tile = "LARGE_MARKET" -> MarketTileState(3)
      [] tile = "SULTANS_PALACE" -> SultansPalaceTileState(player_count < 4)
      [] tile = "WAINWRIGHT" -> WainwrightTileState(3 * player_count)
      [] tile = "GEMSTONE_DEALER" ->
            GemstoneDealerTileState(IF player_count = 2 THEN 15
                                    ELSE IF player_count = 3 THEN 14 ELSE 12)

\* MosqueTileState.take_action
\* MosqueTileState.take_action with no last tile
Mosque_take_action_no_last(ts, good) ==
    IF good \notin DOMAIN ts.available_tiles
    THEN [state |-> ts, raised |-> TRUE]
    ELSE [state |-> [ts EXCEPT !.available_tiles[good] = @ + 1], raised |-> FALSE]

Mosque_take_action(ts, good) ==
    IF good \notin DOMAIN ts.available_tiles
    THEN [state |-> ts, raised |-> TRUE]
    ELSE IF ts.available_tiles[good] < 5
         THEN [state |-> [ts EXCEPT !.available_tiles[good] = @ + 1], raised |-> FALSE]
         ELSE [state |-> [ts EXCEPT !.available_tiles =
                              [k \in (DOMAIN @) \ {good} |-> @[k]]],
               raised |-> FALSE]

\* PostOfficeTileState.MAIL_SLOTS
MAIL_SLOTS ==
    << [good_early |-> "RED", good_late |-> "GREEN", lira_early |-> 2, lira_late |-> 1],
       [good_early |-> "BLUE", good_late |-> "YELLOW", lira_early |-> 2, lira_late |-> 1] >>

\* PostOfficeTileState.available (slot index i is 0-based in the code)
PostOffice_available(ts) ==
    [goods |-> {IF ts.position > i - 1 THEN MAIL_SLOTS[i].good_early
                                       ELSE MAIL_SLOTS[i].good_late : i \in 1..2},
     lira  |-> (IF ts.position > 0 THEN MAIL_SLOTS[1].lira_early ELSE MAIL_SLOTS[1].lira_late)
             + (IF ts.position > 1 THEN MAIL_SLOTS[2].lira_early ELSE MAIL_SLOTS[2].lira_late)]

\* PostOfficeTileState.take_action with a fault: the mail is read off after
\* the position has advanced
PostOffice_take_action_after(ts) ==
    [state |-> [ts EXCEPT !.position = (@ + 1) % 5], raised |-> FALSE,
     result |-> PostOffice_available([ts EXCEPT !.position = (@ + 1) % 5])]

\* PostOfficeTileState.take_action
PostOffice_take_action(ts) ==
    [state |-> [ts EXCEPT !.position = (@ + 1) % 5], raised |-> FALSE,
     result |-> PostOffice_available(ts)]

\* CaravansaryTileState.discard_onto
Caravansary_discard_onto(ts, card) ==
    [ts EXCEPT !.discard_pile = Append(@, card), !.awaiting_discard = FALSE]

\* CaravansaryTileState.take_action
\* CaravansaryTileState.take_action taking the cards discarded first
Caravansary_take_action_oldest(ts, count) ==
    IF ts.awaiting_discard \/ ~(0 <= count /\ count <= 2)
    THEN [state |-> ts, raised |-> TRUE, result |-> <<>>]
    ELSE LET ts1 == [ts EXCEPT !.awaiting_discard = TRUE]
             n == Len(ts.discard_pile)
         IN  IF count = 0 THEN [state |-> ts1, raised |-> FALSE, result |-> <<>>]
             ELSE IF ~(n >= count) THEN [state |-> ts1, raised |-> TRUE, result |-> <<>>]
             ELSE [state |-> [ts1 EXCEPT !.discard_pile = SubSeq(@, count + 1, n)],
                   raised |-> FALSE,
                   result |-> SubSeq(ts.discard_pile, 1, count)]

Caravansary_take_action(ts, count) ==
    IF ts.awaiting_discard \/ ~(0 <= count /\ count <= 2)
    THEN [state |-> ts, raised |-> TRUE, result |-> <<>>]
    ELSE LET ts1 == [ts EXCEPT !.awaiting_discard = TRUE]
             n == Len(ts.discard_pile)
         IN  IF count = 0 THEN [state |-> ts1, raised |-> FALSE, result |-> <<>>]
             ELSE IF ~(n >= count) THEN [state |-> ts1, raised |-> TRUE, result |-> <<>>]
             ELSE [state |-> [ts1 EXCEPT !.discard_pile = SubSeq(@, 1, n - count)],
                   raised |-> FALSE,
                   result |-> SubSeq(ts.discard_pile, n - count + 1, n)]

\* WainwrightTileState.take_action: decrements first, then asserts
Wainwright_take_action(ts) ==
    [state |-> [ts EXCEPT !.extensions = @ - 1], raised |-> ~(ts.extensions - 1 >= 0)]

\* MarketTileState.set_demand
Market_set_demand(ts, demand) ==
    IF Total(demand) # 5
    THEN [state |-> ts, raised |-> TRUE]
    ELSE [state |-> [ts EXCEPT !.demand = demand, !.expecting_demand = FALSE],
          raised |-> FALSE]

\* sum(range(one_cost, one_cost + count))
RECURSIVE SumRange(_, _)
SumRange(from, to) == IF from >= to THEN 0 ELSE from + SumRange(from + 1, to)

\* MarketTileState.take_action without the comparison with the demand
Market_take_action_any_goods(ts, payment) ==
    IF ts.expecting_demand \/ ts.demand = None
    THEN [state |-> ts, raised |-> TRUE, result |-> 0]
    ELSE [state |-> [ts EXCEPT !.expecting_demand = TRUE], raised |-> FALSE,
          result |-> SumRange(ts.one_cost, ts.one_cost + Total(payment))]

\* MarketTileState.take_action
Market_take_action(ts, payment) ==
    IF ts.expecting_demand \/ ts.demand = None
    THEN [state |-> ts, raised |-> TRUE, result |-> 0]
    ELSE IF \E k \in DOMAIN payment : ~(payment[k] <= Count(ts.demand, k))
    THEN [state |-> ts, raised |-> TRUE, result |-> 0]
    ELSE [state |-> [ts EXCEPT !.expecting_demand = TRUE], raised |-> FALSE,
          result |-> SumRange(ts.one_cost, ts.one_cost + Total(payment))]

\* SultansPalaceTileState.GOOD_CYCLE ("ANY" is the code's None, meaning any good)
GOOD_CYCLE == <<"BLUE", "RED", "GREEN", "YELLOW", "ANY">>

\* SultansPalaceTileState.required: None once sold out, else the Counter of
\* required goods (the key "ANY" is always present)
SultansPalace_required(ts) ==
    IF ts.required_count > 10 THEN None
    ELSE [k \in {GOOD_CYCLE[(i % 5) + 1] : i \in 0..(ts.required_count - 1)} \cup {"ANY"} |->
            Cardinality({i \in 0..(ts.required_count - 1) : GOOD_CYCLE[(i % 5) + 1] = k})]

\* SultansPalaceTileState.take_action with a fault: a sold-out palace still sells
SultansPalace_take_action_still_open(ts, payment) ==
    LET required == SultansPalace_required(ts)
    IN  IF required = None
        THEN [state |-> [ts EXCEPT !.required_count = @ + 1], raised |-> FALSE]
        ELSE IF Total(required) # Total(payment) THEN [state |-> ts, raised |-> TRUE]
        ELSE IF \E g \in DOMAIN payment : ~(payment[g] >= Count(required, g))
        THEN [state |-> ts, raised |-> TRUE]
        ELSE [state |-> [ts EXCEPT !.required_count = @ + 1], raised |-> FALSE]

\* SultansPalaceTileState.take_action: only the goods that are keys of the
\* payment are compared with the requirement
SultansPalace_take_action(ts, payment) ==
    LET required == SultansPalace_required(ts)
    IN  IF required = None THEN [state |-> ts, raised |-> TRUE]
        ELSE IF Total(required) # Total(payment) THEN [state |-> ts, raised |-> TRUE]
        ELSE IF \E g \in DOMAIN payment : ~(payment[g] >= Count(required, g))
        THEN [state |-> ts, raised |-> TRUE]
        ELSE [state |-> [ts EXCEPT !.required_count = @ + 1], raised |-> FALSE]

\* GemstoneDealerTileState.take_action
\* GemstoneDealer_take_action without the end of the supply
GemstoneDealer_take_action_no_end(ts) ==
    IF ts.cost = NoCost THEN [state |-> ts, raised |-> TRUE]
    ELSE [state |-> [ts EXCEPT !.cost = @ + 1], raised |-> FALSE]

GemstoneDealer_take_action(ts) ==
    IF ts.cost = NoCost THEN [state |-> ts, raised |-> TRUE]
    ELSE [state |-> [ts EXCEPT !.cost = IF @ + 1 > 24 THEN NoCost ELSE @ + 1],
          raised |-> FALSE]

-----------------------------------------------------------------------------
(* actions.py: the class hierarchy take_action and valid_action test with   *)
(* isinstance.  An action is a record whose field type is its class name.   *)

PlaceTileActionTypes ==
    {"PlaceTileAction", "GenericTileAction", "CaravansaryAction", "BlackMarketAction",
     "TeaHouseAction", "MarketAction", "PoliceStationAction", "SultansPalaceAction",
     "MosqueAction", "FountainAction"}

\* isinstance(action, PlaceTileAction)
IsPlaceTileAction(action) == action.type \in PlaceTileActionTypes

-----------------------------------------------------------------------------
(* turn.py: TurnState.  ts is [players, current_player_idx, current_phase,  *)
(* yield_required]; current_player_idx is 0-based as in the code.           *)

\* TurnState.__init__
TurnState(players) ==
    [players |-> players, current_player_idx |-> 0, current_phase |-> 1,
     yield_required |-> FALSE]

\* TurnState.current_player
TurnState_current_player(ts) == ts.players[ts.current_player_idx + 1]

\* skip_phase_2 with a fault: the phase stays 2
skip_phase_2_stays(ts) ==
    IF ts.current_phase # 2 THEN [state |-> ts, raised |-> TRUE]
    ELSE [state |-> ts, raised |-> FALSE]

\* TurnState.skip_phase_2
skip_phase_2(ts) ==
    IF ts.current_phase # 2 THEN [state |-> ts, raised |-> TRUE]
    ELSE [state |-> [ts EXCEPT !.current_phase = 3], raised |-> FALSE]

\* valid_action with a fault: the encounters are also allowed in phase 3
valid_action_early_encounter(ts, action) ==
    IF ts.yield_required
    THEN action.type \in {"YieldTurn", "OneGoodCardAction", "FiveLiraCardAction",
                          "ArrestFamilyCardAction", "YellowTileAction"}
    ELSE IF action.type = "YieldTurn" THEN ts.current_phase \in {2, 4}
    ELSE IF action.type \in {"Move", "ExtraMoveCardAction", "NoMoveCardAction",
                             "ReturnAssistantCardAction"}
         THEN ts.current_phase = 1
    ELSE IF action.type = "Pay" THEN ts.current_phase = 2
    ELSE IF IsPlaceTileAction(action)
            \/ action.type \in {"SkipTileAction", "DoubleCardAction",
                                "SellAnyCardAction", "GreenTileAction"}
         THEN ts.current_phase = 3
    ELSE IF action.type \in {"ChooseReward", "EncounterGovernor", "EncounterSmuggler"}
         THEN ts.current_phase \in {3, 4}
    ELSE TRUE

\* valid_action with a fault: the return-assistant card passes in every phase
valid_action_card_any_phase(ts, action) ==
    IF ts.yield_required
    THEN action.type \in {"YieldTurn", "OneGoodCardAction", "FiveLiraCardAction",
                          "ArrestFamilyCardAction", "YellowTileAction"}
    ELSE IF action.type = "YieldTurn" THEN ts.current_phase \in {2, 4}
    ELSE IF action.type \in {"Move", "ExtraMoveCardAction", "NoMoveCardAction"}
         THEN ts.current_phase = 1
    ELSE IF action.type = "Pay" THEN ts.current_phase = 2
    ELSE IF IsPlaceTileAction(action)
            \/ action.type \in {"SkipTileAction", "DoubleCardAction",
                                "SellAnyCardAction", "GreenTileAction"}
         THEN ts.current_phase = 3
    ELSE IF action.type \in {"ChooseReward", "EncounterGovernor", "EncounterSmuggler"}
         THEN ts.current_phase = 4
    ELSE TRUE

\* TurnState.valid_action
valid_action(ts, action) ==
    IF ts.yield_required
    THEN action.type \in {"YieldTurn", "OneGoodCardAction", "FiveLiraCardAction",
                          "ArrestFamilyCardAction", "YellowTileAction"}
    ELSE IF action.type = "YieldTurn" THEN ts.current_phase \in {2, 4}
    ELSE IF action.type \in {"Move", "ExtraMoveCardAction", "NoMoveCardAction",
                             "ReturnAssistantCardAction"}
         THEN ts.current_phase = 1
    ELSE IF action.type = "Pay" THEN ts.current_phase = 2
    ELSE IF IsPlaceTileAction(action)
            \/ action.type \in {"SkipTileAction", "DoubleCardAction",
                                "SellAnyCardAction", "GreenTileAction"}
         THEN ts.current_phase = 3
    ELSE IF action.type \in {"ChooseReward", "EncounterGovernor", "EncounterSmuggler"}
         THEN ts.current_phase = 4
    ELSE TRUE

\* TurnState.take_action with a fault: skip_assistant does not set yield_required
TurnState_take_action_no_yield_required(ts, action) ==
    IF ~valid_action(ts, action) THEN [state |-> ts, raised |-> TRUE]
    ELSE IF action.type = "YieldTurn"
    THEN [state |-> [ts EXCEPT !.current_player_idx = (@ + 1) % Len(ts.players),
                               !.current_phase = 1,
                               !.yield_required = FALSE],
          raised |-> FALSE]
    ELSE LET act == IF action.type = "ExtraMoveCardAction" THEN action.move ELSE action
         IN  IF act.type \in {"Move", "NoMoveCardAction"}
             THEN [state |-> [ts EXCEPT !.current_phase = 2,
                                        !.yield_required = @],
                   raised |-> FALSE]
             ELSE LET ts1 == IF act.type = "Pay" THEN [ts EXCEPT !.current_phase = 3] ELSE ts
                  IN  IF (IsPlaceTileAction(act)
                          \/ act.type \in {"SkipTileAction", "DoubleCardAction",
                                           "SellAnyCardAction", "GreenTileAction"})
                         /\ act.type # "PoliceStationAction"
                      THEN [state |-> [ts1 EXCEPT !.current_phase = 4], raised |-> FALSE]
                      ELSE [state |-> ts1, raised |-> FALSE]

\* TurnState.take_action with a fault: a yield leaves the same player current
TurnState_take_action_same_player(ts, action) ==
    IF ~valid_action(ts, action) THEN [state |-> ts, raised |-> TRUE]
    ELSE IF action.type = "YieldTurn"
    THEN [state |-> [ts EXCEPT !.current_player_idx = @,
                               !.current_phase = 1,
                               !.yield_required = FALSE],
          raised |-> FALSE]
    ELSE LET act == IF action.type = "ExtraMoveCardAction" THEN action.move ELSE action
         IN  IF act.type \in {"Move", "NoMoveCardAction"}
             THEN [state |-> [ts EXCEPT !.current_phase = 2,
                                        !.yield_required = IF act.skip_assistant THEN TRUE ELSE @],
                   raised |-> FALSE]
             ELSE LET ts1 == IF act.type = "Pay" THEN [ts EXCEPT !.current_phase = 3] ELSE ts
                  IN  IF (IsPlaceTileAction(act)
                          \/ act.type \in {"SkipTileAction", "DoubleCardAction",
                                           "SellAnyCardAction", "GreenTileAction"})
                         /\ act.type # "PoliceStationAction"
                      THEN [state |-> [ts1 EXCEPT !.current_phase = 4], raised |-> FALSE]
                      ELSE [state |-> ts1, raised |-> FALSE]

\* TurnState.take_action with the variant the comment at turn.py 44-45
\* considers: an encounter with the governor or the smuggler uses up the turn
TurnState_take_action_encounter_once(ts, action) ==
    IF ~valid_action(ts, action) THEN [state |-> ts, raised |-> TRUE]
    ELSE IF action.type = "YieldTurn"
    THEN [state |-> [ts EXCEPT !.current_player_idx = (@ + 1) % Len(ts.players),
                               !.current_phase = 1,
                               !.yield_required = FALSE],
          raised |-> FALSE]
    ELSE LET act == IF action.type = "ExtraMoveCardAction" THEN action.move ELSE action
         IN  IF act.type \in {"Move", "NoMoveCardAction"}
             THEN [state |-> [ts EXCEPT !.current_phase = 2,
                                        !.yield_required = IF act.skip_assistant THEN TRUE ELSE @],
                   raised |-> FALSE]
             ELSE IF act.type \in {"EncounterGovernor", "EncounterSmuggler"}
             THEN [state |-> [ts EXCEPT !.yield_required = TRUE], raised |-> FALSE]
             ELSE LET ts1 == IF act.type = "Pay" THEN [ts EXCEPT !.current_phase = 3] ELSE ts
                  IN  IF (IsPlaceTileAction(act)
                          \/ act.type \in {"SkipTileAction", "DoubleCardAction",
                                           "SellAnyCardAction", "GreenTileAction"})
                         /\ act.type # "PoliceStationAction"
                      THEN [state |-> [ts1 EXCEPT !.current_phase = 4], raised |-> FALSE]
                      ELSE [state |-> ts1, raised |-> FALSE]

\* TurnState.take_action with a fault: a tile action leaves the phase at 3
TurnState_take_action_tile_open(ts, action) ==
    IF ~valid_action(ts, action) THEN [state |-> ts, raised |-> TRUE]
    ELSE IF action.type = "YieldTurn"
    THEN [state |-> [ts EXCEPT !.current_player_idx = (@ + 1) % Len(ts.players),
                               !.current_phase = 1,
                               !.yield_required = FALSE],
          raised |-> FALSE]
    ELSE LET act == IF action.type = "ExtraMoveCardAction" THEN action.move ELSE action
         IN  IF act.type \in {"Move", "NoMoveCardAction"}
             THEN [state |-> [ts EXCEPT !.current_phase = 2,
                                        !.yield_required = IF act.skip_assistant THEN TRUE ELSE @],
                   raised |-> FALSE]
             ELSE LET ts1 == IF act.type = "Pay" THEN [ts EXCEPT !.current_phase = 3] ELSE ts
                  IN  IF (IsPlaceTileAction(act)
                          \/ act.type \in {"SkipTileAction", "DoubleCardAction",
                                           "SellAnyCardAction", "GreenTileAction"})
                         /\ act.type # "PoliceStationAction"
                      THEN [state |-> ts1, raised |-> FALSE]
                      ELSE [state |-> ts1, raised |-> FALSE]

\* TurnState.take_action
TurnState_take_action(ts, action) ==
    IF ~valid_action(ts, action) THEN [state |-> ts, raised |-> TRUE]
    ELSE IF action.type = "YieldTurn"
    THEN [state |-> [ts EXCEPT !.current_player_idx = (@ + 1) % Len(ts.players),
                               !.current_phase = 1,
                               !.yield_required = FALSE],
          raised |-> FALSE]
    ELSE LET act == IF action.type = "ExtraMoveCardAction" THEN action.move ELSE action
         IN  IF act.type \in {"Move", "NoMoveCardAction"}
             THEN [state |-> [ts EXCEPT !.current_phase = 2,
                                        !.yield_required = IF act.skip_assistant THEN TRUE ELSE @],
                   raised |-> FALSE]
             ELSE LET ts1 == IF act.type = "Pay" THEN [ts EXCEPT !.current_phase = 3] ELSE ts
                  IN  IF (IsPlaceTileAction(act)
                          \/ act.type \in {"SkipTileAction", "DoubleCardAction",
                                           "SellAnyCardAction", "GreenTileAction"})
                         /\ act.type # "PoliceStationAction"
                      THEN [state |-> [ts1 EXCEPT !.current_phase = 4], raised |-> FALSE]
                      ELSE [state |-> ts1, raised |-> FALSE]

-----------------------------------------------------------------------------
(* player.py: PlayerState.__init__ *)

PlayerState(hand, lira, fountain, police_station) ==
    [hand |-> [c \in Card |-> IF c = hand THEN 1 ELSE 0],
     lira |-> lira,
     rubies |-> 0,
     cart_max |-> 2,
     cart_contents |-> [good \in Good |-> 0],
     stack_size |-> 4,
     tiles |-> {},
     location |-> fountain,
     assistant_locations |-> {},
     family_location |-> police_station]

-----------------------------------------------------------------------------
(* game.py: GameState.  A game g is the record of GameState's fields plus   *)
(* raised, which is set when the call being modelled has raised; the        *)
(* statements after a raise are not executed: every operation on a game     *)
(* that has raised leaves it as it is.                                      *)

\* GameState.__init__ (the default location map; the two market demands are given)
GameState(players, small_demand, large_demand, governor_location, smuggler_location, player_hands) ==
    LET player_count == Len(players)
        fountain == location_map_inverse["FOUNTAIN"]
        police_station == location_map_inverse["POLICE_STATION"]
        everyone == {players[i] : i \in 1..player_count}
        t0 == [tile \in Tiles |-> initial_tile_state(tile, player_count)]
        t1 == [t0 EXCEPT !["SMALL_MARKET"] = Market_set_demand(@, small_demand).state,
                         !["LARGE_MARKET"] = Market_set_demand(@, large_demand).state]
        t2 == [t1 EXCEPT !["POLICE_STATION"].family_members = @ \cup everyone,
                         !["FOUNTAIN"].players = @ \cup everyone]
        t3 == [t2 EXCEPT ![location_map[governor_location]].governor = TRUE]
        t4 == [t3 EXCEPT ![location_map[smuggler_location]].smuggler = TRUE]
    IN  [turn_state |-> TurnState(players),
         player_states |->
            [p \in everyone |->
                LET i == CHOOSE j \in 1..player_count : players[j] = p
                IN  PlayerState(player_hands[p], i + 1, fountain, police_station)],
         tile_states |-> t4,
         outstanding_reward_choices |-> 0,
         family_member_acting |-> FALSE,
         completed |-> FALSE,
         raised |-> FALSE]

\* a raise: the call ends here, the state stays as it is at this point
Raise(g) == [g EXCEPT !.raised = TRUE]

\* GameState.current_player
current_player(g) == TurnState_current_player(g.turn_state)

\* GameState.victory_threshold
victory_threshold(g) == IF Len(g.turn_state.players) # 2 THEN 5 ELSE 6

\* GameState._check_completed
check_completed(g) ==
    IF g.raised THEN g ELSE
    IF current_player(g) # g.turn_state.players[Len(g.turn_state.players)] THEN g
    ELSE IF \E p \in DOMAIN g.player_states :
                g.player_states[p].rubies >= victory_threshold(g)
         THEN [g EXCEPT !.completed = TRUE]
         ELSE g

\* the tuples of ranking(): (rubies, lira, goods in the cart, cards in hand, index)
\* for each player, the index counted from 0 as in the code
scores(g) ==
    [i \in 1..Len(g.turn_state.players) |->
        LET p == g.player_states[g.turn_state.players[i]]
        IN  <<p.rubies, p.lira, Total(p.cart_contents), Total(p.hand), i - 1>>]

\* a < b for two tuples of integers of the same length, as Python compares tuples
tuple_less(a, b) ==
    \E k \in 1..Len(a) : a[k] < b[k] /\ \A j \in 1..(k - 1) : a[j] = b[j]

\* sorted(scores): the tuple in place k has k - 1 tuples below it (the indices
\* make the tuples distinct)
sorted(s) ==
    [k \in 1..Len(s) |->
        CHOOSE t \in {s[i] : i \in 1..Len(s)} :
            Cardinality({i \in 1..Len(s) : tuple_less(s[i], t)}) = k - 1]

\* sorted(scores, reverse=True)
sorted_reverse(s) == [k \in 1..Len(s) |-> sorted(s)[Len(s) + 1 - k]]

\* ranking() with a fault: sorted without reverse=True
ranking_ascending(g) ==
    [k \in 1..Len(g.turn_state.players) |->
        LET t == sorted(scores(g))[k]
        IN  [player |-> g.turn_state.players[t[5] + 1], score |-> SubSeq(t, 1, 4)]]

\* GameState.ranking: the dict in insertion order, as a sequence of its items
ranking(g) ==
    [k \in 1..Len(g.turn_state.players) |->
        LET t == sorted_reverse(scores(g))[k]
        IN  [player |-> g.turn_state.players[t[5] + 1], score |-> SubSeq(t, 1, 4)]]

\* _move_to with a fault: the player stays listed on the tile left
move_to_listed_twice(g, location) ==
    IF g.raised THEN g ELSE
    LET player == current_player(g)
        from == location_map[g.player_states[player].location]
    IN  IF player \notin g.tile_states[from].players THEN Raise(g)
        ELSE [g EXCEPT !.tile_states[location_map[location]].players = @ \cup {player},
                       !.player_states[player].location = location]

\* GameState._move_to
move_to(g, location) ==
    IF g.raised THEN g ELSE
    LET player == current_player(g)
        from == location_map[g.player_states[player].location]
    IN  IF player \notin g.tile_states[from].players THEN Raise(g)
        ELSE [g EXCEPT !.tile_states =
                          [[@ EXCEPT ![from].players = @ \ {player}]
                              EXCEPT ![location_map[location]].players = @ \cup {player}],
                       !.player_states[player].location = location]

\* GameState._discard
discard(g, card) ==
    IF g.raised THEN g ELSE
    LET player == current_player(g)
    IN  IF ~(g.player_states[player].hand[card] >= 1) THEN Raise(g)
        ELSE [g EXCEPT !.player_states[player].hand[card] = @ - 1,
                       !.tile_states["CARAVANSARY"] = Caravansary_discard_onto(@, card)]

\* _spend with a fault: the lira are taken whether or not the player has them
spend_on_credit(g, lira) ==
    IF g.raised THEN g ELSE
    [g EXCEPT !.player_states[current_player(g)].lira = @ - lira]

\* GameState._spend
spend(g, lira) ==
    IF g.raised THEN g ELSE
    LET player == current_player(g)
    IN  IF ~(g.player_states[player].lira >= lira) THEN Raise(g)
        ELSE [g EXCEPT !.player_states[player].lira = @ - lira]

\* _acquire with a fault: the good is added even to a full cart
acquire_unbounded(g, good) ==
    IF g.raised THEN g ELSE
    [g EXCEPT !.player_states[current_player(g)].cart_contents[good] = @ + 1]

\* GameState._acquire
acquire(g, good) ==
    IF g.raised THEN g ELSE
    LET ps == g.player_states[current_player(g)]
    IN  IF ps.cart_contents[good] = ps.cart_max THEN g
        ELSE [g EXCEPT !.player_states[current_player(g)].cart_contents[good] = @ + 1]

\* GameState._max_cart
max_cart(g, good) ==
    IF g.raised THEN g ELSE
    IF good = "BLUE" THEN Raise(g)
    ELSE [g EXCEPT !.player_states[current_player(g)].cart_contents[good] =
                        g.player_states[current_player(g)].cart_max]

\* the keys of a Counter given as input, in the order they are iterated
GoodOrder == <<"RED", "BLUE", "GREEN", "YELLOW">>

\* GameState._trade: good by good, each checked and then taken, up to the first that fails
RECURSIVE trade_from(_, _, _)
trade_from(g, goods, i) ==
    IF g.raised \/ i > Len(GoodOrder) THEN g
    ELSE LET good == GoodOrder[i]
             player == current_player(g)
         IN  IF good \notin DOMAIN goods THEN trade_from(g, goods, i + 1)
             ELSE IF ~(g.player_states[player].cart_contents[good] >= goods[good])
                  THEN Raise(g)
                  ELSE trade_from(
                         [g EXCEPT !.player_states[player].cart_contents[good] = @ - goods[good]],
                         goods, i + 1)

trade(g, goods) == trade_from(g, goods, 1)

\* _choose_reward with a fault: the reward stays outstanding
choose_reward_kept(g, choice) ==
    IF g.raised THEN g ELSE
    LET player == current_player(g)
    IN  IF choice.choice = "Lira"
        THEN [g EXCEPT !.player_states[player].lira = @ + 3]
        ELSE IF choice.choice \notin Card THEN Raise(g)
        ELSE [g EXCEPT !.player_states[player].hand[choice.choice] = @ + 1]

\* GameState._choose_reward
choose_reward(g, choice) ==
    IF g.raised THEN g ELSE
    LET player == current_player(g)
        g1 == IF choice.choice = "Lira"
              THEN [g EXCEPT !.player_states[player].lira = @ + 3]
              ELSE IF choice.choice \notin Card THEN Raise(g)
              ELSE [g EXCEPT !.player_states[player].hand[choice.choice] = @ + 1]
    IN  IF g1.raised THEN g1
        ELSE [g1 EXCEPT !.outstanding_reward_choices = @ - 1]

\* _encounter_family_members with a fault: one reward is queued however many
\* family members are captured
encounter_family_members_one_reward(g) ==
    IF g.raised THEN g ELSE
    IF g.family_member_acting THEN g
    ELSE LET player == current_player(g)
             current_tile == location_map[g.player_states[player].location]
         IN  IF current_tile = "POLICE_STATION" THEN g
             ELSE LET to_capture == g.tile_states[current_tile].family_members \ {player}
                  IN  [g EXCEPT
                         !.outstanding_reward_choices = @ + 1,
                         !.tile_states =
                            [[@ EXCEPT ![current_tile].family_members = @ \ to_capture]
                                EXCEPT !["POLICE_STATION"].family_members = @ \cup to_capture],
                         !.player_states =
                            [p \in DOMAIN @ |->
                                IF p \in to_capture
                                THEN [@[p] EXCEPT !.family_location =
                                                     location_map_inverse["POLICE_STATION"]]
                                ELSE @[p]]]

\* GameState._encounter_family_members
encounter_family_members(g) ==
    IF g.raised THEN g ELSE
    IF g.family_member_acting THEN g
    ELSE LET player == current_player(g)
             current_tile == location_map[g.player_states[player].location]
         IN  IF current_tile = "POLICE_STATION" THEN g
             ELSE LET to_capture == g.tile_states[current_tile].family_members \ {player}
                  IN  [g EXCEPT
                         !.outstanding_reward_choices = @ + Cardinality(to_capture),
                         !.tile_states =
                            [[@ EXCEPT ![current_tile].family_members = @ \ to_capture]
                                EXCEPT !["POLICE_STATION"].family_members = @ \cup to_capture],
                         !.player_states =
                            [p \in DOMAIN @ |->
                                IF p \in to_capture
                                THEN [@[p] EXCEPT !.family_location =
                                                     location_map_inverse["POLICE_STATION"]]
                                ELSE @[p]]]

\* GameState._location_from_roll with a fault: the table is read at the first
\* die instead of the sum of the two
location_from_roll_first_die(roll) == location_map_inverse[ROLL_LOCATIONS[roll[1]]]

\* GameState._location_from_roll
location_from_roll(roll) == location_map_inverse[ROLL_LOCATIONS[roll[1] + roll[2]]]

\* GameState._check_roll: [raised, total].  A roll is [type |-> "Roll", roll] or a
\* RedTileAction [type |-> "RedTileAction", initial_roll, final_roll, method,
\* method_is_constant].  Line 268 compares the method by identity
\* (roll.method is RedTileAction.TO_FOUR), so the outcome depends on which
\* string object the caller passed: method_is_constant says that it is the class
\* attribute itself (as action_json.py passes it) and not an equal string built
\* elsewhere (as the literal of load/actions.py 41-44 is)
check_roll(g, roll) ==
    IF roll.type = "RedTileAction"
    THEN IF "RED" \notin g.player_states[current_player(g)].tiles
         THEN [raised |-> TRUE, total |-> 0]
         ELSE IF roll.method = "TO_FOUR" /\ roll.method_is_constant
                 /\ ~(  (roll.initial_roll[1] = roll.final_roll[1] /\ roll.final_roll[2] = 4)
                     \/ (roll.initial_roll[2] = roll.final_roll[2] /\ roll.final_roll[1] = 4)
                     \/ (roll.initial_roll[1] = roll.final_roll[2] /\ roll.final_roll[1] = 4)
                     \/ (roll.initial_roll[2] = roll.final_roll[1] /\ roll.final_roll[2] = 4))
         THEN [raised |-> TRUE, total |-> 0]
         ELSE [raised |-> FALSE, total |-> roll.final_roll[1] + roll.final_roll[2]]
    ELSE [raised |-> FALSE, total |-> roll.roll[1] + roll.roll[2]]

-----------------------------------------------------------------------------
(* game.py: the tile handlers *)

\* the tile the current player stands on
player_tile(g) == location_map[g.player_states[current_player(g)].location]

\* _handle_mosque_action with a fault: the blue tile brings no extra assistant
handle_mosque_action_no_assistant(g, action) ==
    IF g.raised THEN g ELSE
    LET player == current_player(g)
        ps == g.player_states[player]
        tile == player_tile(g)
        good == action.good_color
    IN  IF tile \notin {"GREAT_MOSQUE", "SMALL_MOSQUE"} THEN Raise(g)
        ELSE IF good \in ps.tiles THEN Raise(g)
        ELSE IF good \notin DOMAIN g.tile_states[tile].available_tiles THEN Raise(g)
        ELSE LET cost == g.tile_states[tile].available_tiles[good]
                 g1 == trade(g, [k \in {good} |-> cost])
                 m == Mosque_take_action(g1.tile_states[tile], good)
             IN  IF g1.raised THEN g1
                 ELSE IF m.raised THEN Raise(g1)
                 ELSE [g1 EXCEPT
                         !.tile_states[tile] = m.state,
                         !.player_states[player] =
                            [@ EXCEPT
                               !.stack_size = @,
                               !.rubies = IF \/ (good = "BLUE" /\ "YELLOW" \in ps.tiles)
                                             \/ (good = "YELLOW" /\ "BLUE" \in ps.tiles)
                                             \/ (good = "RED" /\ "GREEN" \in ps.tiles)
                                             \/ (good = "GREEN" /\ "RED" \in ps.tiles)
                                          THEN @ + 1 ELSE @,
                               !.tiles = @ \cup {good}]]

\* GameState._handle_mosque_action
\* _handle_mosque_action with a ruby for every tile acquired
handle_mosque_action_ruby_each(g, action) ==
    IF g.raised THEN g ELSE
    LET player == current_player(g)
        ps == g.player_states[player]
        tile == player_tile(g)
        good == action.good_color
    IN  IF tile \notin {"GREAT_MOSQUE", "SMALL_MOSQUE"} THEN Raise(g)
        ELSE IF good \in ps.tiles THEN Raise(g)
        ELSE IF good \notin DOMAIN g.tile_states[tile].available_tiles THEN Raise(g)
        ELSE LET cost == g.tile_states[tile].available_tiles[good]
                 g1 == trade(g, [k \in {good} |-> cost])
                 m == Mosque_take_action(g1.tile_states[tile], good)
             IN  IF g1.raised THEN g1
                 ELSE IF m.raised THEN Raise(g1)
                 ELSE [g1 EXCEPT
                         !.tile_states[tile] = m.state,
                         !.player_states[player] =
                            [@ EXCEPT
                               !.stack_size = IF good = "BLUE" THEN @ + 1 ELSE @,
                               !.rubies = @ + 1,
                               !.tiles = @ \cup {good}]]

handle_mosque_action(g, action) ==
    IF g.raised THEN g ELSE
    LET player == current_player(g)
        ps == g.player_states[player]
        tile == player_tile(g)
        good == action.good_color
    IN  IF tile \notin {"GREAT_MOSQUE", "SMALL_MOSQUE"} THEN Raise(g)
        ELSE IF good \in ps.tiles THEN Raise(g)
        ELSE IF good \notin DOMAIN g.tile_states[tile].available_tiles THEN Raise(g)
        ELSE LET cost == g.tile_states[tile].available_tiles[good]
                 g1 == trade(g, [k \in {good} |-> cost])
                 m == Mosque_take_action(g1.tile_states[tile], good)
             IN  IF g1.raised THEN g1
                 ELSE IF m.raised THEN Raise(g1)
                 ELSE [g1 EXCEPT
                         !.tile_states[tile] = m.state,
                         !.player_states[player] =
                            [@ EXCEPT
                               !.stack_size = IF good = "BLUE" THEN @ + 1 ELSE @,
                               !.rubies = IF \/ (good = "BLUE" /\ "YELLOW" \in ps.tiles)
                                             \/ (good = "YELLOW" /\ "BLUE" \in ps.tiles)
                                             \/ (good = "RED" /\ "GREEN" \in ps.tiles)
                                             \/ (good = "GREEN" /\ "RED" \in ps.tiles)
                                          THEN @ + 1 ELSE @,
                               !.tiles = @ \cup {good}]]

\* the goods of the post office are acquired one by one
RECURSIVE acquire_all(_, _)
acquire_all(g, goods) ==
    IF goods = {} THEN g
    ELSE LET good == CHOOSE x \in goods : TRUE
         IN  acquire_all(acquire(g, good), goods \ {good})

\* GameState._handle_post_office_action
handle_post_office_action(g) ==
    IF g.raised THEN g ELSE
    IF player_tile(g) # "POST_OFFICE" THEN Raise(g)
    ELSE LET r == PostOffice_take_action(g.tile_states["POST_OFFICE"])
             g1 == [g EXCEPT !.tile_states["POST_OFFICE"] = r.state]
             g2 == acquire_all(g1, r.result.goods)
         IN  [g2 EXCEPT !.player_states[current_player(g)].lira = @ + r.result.lira]

\* the loop of _handle_fountain_action, over the locations in ascending order
RECURSIVE return_assistants(_, _)
return_assistants(g, locations) ==
    IF g.raised \/ locations = {} THEN g
    ELSE LET location == CHOOSE l \in locations : \A m \in locations : l <= m
             player == current_player(g)
             g1 == [g EXCEPT !.player_states[player].stack_size = @ + 1]
         IN  IF location \notin g1.player_states[player].assistant_locations THEN Raise(g1)
             ELSE LET g2 == [g1 EXCEPT !.player_states[player].assistant_locations =
                                            @ \ {location}]
                  IN  IF player \notin g2.tile_states[location_map[location]].assistants
                      THEN Raise(g2)
                      ELSE return_assistants(
                             [g2 EXCEPT !.tile_states[location_map[location]].assistants =
                                           @ \ {player}],
                             locations \ {location})

\* _handle_fountain_action returning every assistant whatever the action names
handle_fountain_action_all(g, explicit, assistant_locations) ==
    IF g.raised THEN g ELSE
    LET available_locations == g.player_states[current_player(g)].assistant_locations
    IN  IF explicit /\ ~(assistant_locations \subseteq available_locations) THEN Raise(g)
        ELSE return_assistants(g, available_locations)

\* GameState._handle_fountain_action: explicit is FALSE for action = None
handle_fountain_action(g, explicit, assistant_locations) ==
    IF g.raised THEN g ELSE
    LET available_locations == g.player_states[current_player(g)].assistant_locations
    IN  IF explicit
        THEN IF ~(assistant_locations \subseteq available_locations) THEN Raise(g)
             ELSE return_assistants(g, assistant_locations)
        ELSE return_assistants(g, available_locations)

\* _acquire(Good.BLUE), times times
RECURSIVE acquire_times(_, _, _)
acquire_times(g, good, times) ==
    IF times = 0 THEN g ELSE acquire_times(acquire(g, good), good, times - 1)

\* GameState._handle_black_market_action
handle_black_market_action(g, action) ==
    IF g.raised THEN g ELSE
    IF player_tile(g) # "BLACK_MARKET" THEN Raise(g)
    ELSE LET g1 == acquire(g, action.good)
             r == check_roll(g1, action.roll)
             times == IF r.total >= 11 THEN 3
                      ELSE IF r.total >= 9 THEN 2
                      ELSE IF r.total >= 7 THEN 1 ELSE 0
         IN  IF r.raised THEN Raise(g1) ELSE acquire_times(g1, "BLUE", times)

\* the cards of a list are added to the hand
RECURSIVE gain_cards(_, _)
gain_cards(g, cards) ==
    IF cards = <<>> THEN g
    ELSE gain_cards([g EXCEPT !.player_states[current_player(g)].hand[Head(cards)] = @ + 1],
                    Tail(cards))

\* GameState._handle_caravansary_action: a gain is a card or "DISCARD"
handle_caravansary_action(g, action) ==
    IF g.raised THEN g ELSE
    IF player_tile(g) # "CARAVANSARY" THEN Raise(g)
    ELSE LET count == Cardinality({i \in 1..Len(action.gains) : action.gains[i] = "DISCARD"})
             g1 == gain_cards(g, SelectSeq(action.gains, LAMBDA x : x # "DISCARD"))
             r == Caravansary_take_action(g1.tile_states["CARAVANSARY"], count)
             g2 == [g1 EXCEPT !.tile_states["CARAVANSARY"] = r.state]
         IN  IF r.raised THEN Raise(g2)
             ELSE discard(gain_cards(g2, r.result), action.cost)

\* GameState._handle_market_action
handle_market_action(g, action) ==
    IF g.raised THEN g ELSE
    LET tile == player_tile(g)
        player == current_player(g)
    IN  IF tile \notin {"SMALL_MARKET", "LARGE_MARKET"} THEN Raise(g)
        ELSE LET g1 == trade(g, action.goods)
                 r == Market_take_action(g1.tile_states[tile], action.goods)
             IN  IF g1.raised THEN g1
                 ELSE IF r.raised THEN Raise(g1)
                 ELSE LET d == Market_set_demand(r.state, action.new_demand)
                      IN  [g1 EXCEPT !.tile_states[tile] = d.state,
                                     !.player_states[player].lira = @ + r.result,
                                     !.raised = d.raised]

\* GameState._handle_tea_house_action
handle_tea_house_action(g, action) ==
    IF g.raised THEN g ELSE
    IF player_tile(g) # "TEA_HOUSE" THEN Raise(g)
    ELSE LET r == check_roll(g, action.roll)
         IN  IF r.raised THEN Raise(g)
             ELSE [g EXCEPT !.player_states[current_player(g)].lira =
                               @ + (IF r.total >= action.call THEN action.call ELSE 2)]

\* GameState._handle_sultans_palace_action
handle_sultans_palace_action(g, action) ==
    IF g.raised THEN g ELSE
    IF player_tile(g) # "SULTANS_PALACE" THEN Raise(g)
    ELSE LET g1 == trade(g, action.goods)
             r == SultansPalace_take_action(g1.tile_states["SULTANS_PALACE"], action.goods)
         IN  IF g1.raised THEN g1
             ELSE IF r.raised THEN Raise(g1)
             ELSE [g1 EXCEPT !.tile_states["SULTANS_PALACE"] = r.state,
                             !.player_states[current_player(g)].rubies = @ + 1]

\* GameState._handle_wainwright_action
handle_wainwright_action(g) ==
    IF g.raised THEN g ELSE
    LET player == current_player(g)
    IN  IF ~(g.player_states[player].cart_max <= 5) THEN Raise(g)
        ELSE LET g1 == spend(g, 7)
                 r == Wainwright_take_action(g1.tile_states["WAINWRIGHT"])
                 g2 == [g1 EXCEPT !.tile_states["WAINWRIGHT"] = r.state]
             IN  IF g1.raised THEN g1
                 ELSE IF r.raised THEN Raise(g2)
                 ELSE [g2 EXCEPT !.player_states[player] =
                          [@ EXCEPT !.cart_max = @ + 1,
                                    !.rubies = IF g2.player_states[player].cart_max + 1 = 5
                                               THEN @ + 1 ELSE @]]

\* GameState._handle_gemstone_dealer_action
handle_gemstone_dealer_action(g) ==
    IF g.raised THEN g ELSE
    IF player_tile(g) # "GEMSTONE_DEALER" THEN Raise(g)
    ELSE LET dealer_state == g.tile_states["GEMSTONE_DEALER"]
         IN  IF dealer_state.cost = NoCost THEN Raise(g)
             ELSE LET g1 == spend(g, dealer_state.cost)
                      r == GemstoneDealer_take_action(dealer_state)
                  IN  IF g1.raised THEN g1
                      ELSE IF r.raised THEN Raise(g1)
                      ELSE [g1 EXCEPT !.tile_states["GEMSTONE_DEALER"] = r.state,
                                      !.player_states[current_player(g)].rubies = @ + 1]

-----------------------------------------------------------------------------
(* game.py: GameState.take_action and the Police Station handler, which     *)
(* calls take_action again for the family member's action                   *)

RECURSIVE take_action(_, _)
RECURSIVE handle_police_station_action(_, _)

\* take_action, lines 294-304: Move and ExtraMoveCardAction move the player
take_action_move(g, action) ==
    IF g.raised THEN g ELSE
    LET player == current_player(g)
        is_move == action.type = "Move"
        move_range == IF is_move THEN {1, 2} ELSE {3, 4}
        move == IF is_move THEN action ELSE action.move
        g1 == IF is_move THEN g ELSE discard(g, "EXTRA_MOVE")
        distance == taxicab_dist(g1.player_states[player].location, move.tile)
    IN  IF g1.raised THEN g1
        ELSE IF distance \notin move_range THEN Raise(g1)
        ELSE move_to(g1, move.tile)

\* take_action, lines 308-333: the assistant at the destination, then phase 2 is
\* skipped when the player is alone or at the Fountain
take_action_assistant(g, action) ==
    IF g.raised THEN g ELSE
    LET player == current_player(g)
        location == g.player_states[player].location
        tile == location_map[location]
        g1 == IF action.type = "NoMoveCardAction" THEN discard(g, "NO_MOVE") ELSE g
        skip_assistant == IF action.type = "ExtraMoveCardAction"
                          THEN action.move.skip_assistant ELSE action.skip_assistant
        ps == g1.player_states[player]
        g2 == IF g1.raised \/ skip_assistant THEN g1
              ELSE IF player \in g1.tile_states[tile].assistants
              THEN LET g1a == [g1 EXCEPT !.tile_states[tile].assistants = @ \ {player},
                                         !.player_states[player].stack_size = @ + 1]
                   IN  IF location \notin ps.assistant_locations THEN Raise(g1a)
                       ELSE [g1a EXCEPT !.player_states[player].assistant_locations =
                                           @ \ {location}]
              ELSE IF ps.stack_size > 0
              THEN [g1 EXCEPT !.player_states[player].stack_size = @ - 1,
                              !.player_states[player].assistant_locations = @ \cup {location},
                              !.tile_states[tile].assistants = @ \cup {player}]
              ELSE IF tile # "FOUNTAIN" THEN Raise(g1) ELSE g1
    IN  IF g2.raised THEN g2
        ELSE IF Cardinality(g2.tile_states[tile].players) = 1 \/ tile = "FOUNTAIN"
             THEN LET t == skip_phase_2(g2.turn_state)
                  IN  [g2 EXCEPT !.turn_state = t.state, !.raised = t.raised]
             ELSE g2

\* Pay with a fault: the payer is charged 2 lira whatever the number of players paid
take_action_pay_flat(g) ==
    IF g.raised THEN g ELSE
    LET player == current_player(g)
        others == g.tile_states[player_tile(g)].players \ {player}
        cost == (Cardinality(g.tile_states[player_tile(g)].players) - 1) * 2
    IN  IF ~(0 < cost /\ cost <= g.player_states[player].lira) THEN Raise(g)
        ELSE [g EXCEPT !.player_states =
                 [p \in DOMAIN @ |->
                    IF p \in others THEN [@[p] EXCEPT !.lira = @ + 2]
                    ELSE IF p = player THEN [@[p] EXCEPT !.lira = @ - 2] ELSE @[p]]]

\* take_action, lines 335-343: Pay
take_action_pay(g) ==
    IF g.raised THEN g ELSE
    LET player == current_player(g)
        others == g.tile_states[player_tile(g)].players \ {player}
        cost == (Cardinality(g.tile_states[player_tile(g)].players) - 1) * 2
    IN  IF ~(0 < cost /\ cost <= g.player_states[player].lira) THEN Raise(g)
        ELSE [g EXCEPT !.player_states =
                 [p \in DOMAIN @ |->
                    IF p \in others THEN [@[p] EXCEPT !.lira = @ + 2]
                    ELSE IF p = player
                         THEN [@[p] EXCEPT !.lira = @ - 2 * Cardinality(others)]
                         ELSE @[p]]]

\* take_action, lines 349-358: EncounterGovernor
take_action_governor(g, action) ==
    IF g.raised THEN g ELSE
    LET player == current_player(g)
        tile == player_tile(g)
    IN  IF ~g.tile_states[tile].governor THEN Raise(g)
        ELSE LET g1 == [g EXCEPT !.player_states[player].hand[action.gain] = @ + 1]
                 g2 == IF action.cost = "Pay" THEN spend(g1, 2) ELSE discard(g1, action.cost)
             IN  IF g2.raised THEN g2
                 ELSE [g2 EXCEPT !.tile_states =
                         [[@ EXCEPT ![tile].governor = FALSE]
                             EXCEPT ![location_map[location_from_roll(action.roll)]].governor = TRUE]]

\* take_action, lines 360-371: EncounterSmuggler
take_action_smuggler(g, action) ==
    IF g.raised THEN g ELSE
    LET player == current_player(g)
        tile == player_tile(g)
        ps == g.player_states[player]
    IN  IF ~g.tile_states[tile].smuggler THEN Raise(g)
        ELSE LET g1 == [g EXCEPT !.player_states[player].cart_contents[action.gain] =
                                    IF @ + 1 <= ps.cart_max THEN @ + 1 ELSE ps.cart_max]
                 g2 == IF action.cost = "Pay" THEN spend(g1, 2)
                       ELSE trade(g1, [k \in {action.cost} |-> 1])
             IN  IF g2.raised THEN g2
                 ELSE [g2 EXCEPT !.tile_states =
                         [[@ EXCEPT ![tile].smuggler = FALSE]
                             EXCEPT ![location_map[location_from_roll(action.roll)]].smuggler = TRUE]]

\* take_action, lines 383-391: ArrestFamilyCardAction
take_action_arrest_family(g, action) ==
    IF g.raised THEN g ELSE
    LET player == current_player(g)
        police_station == location_map_inverse["POLICE_STATION"]
        family_location == g.player_states[player].family_location
    IN  IF family_location = police_station THEN Raise(g)
        ELSE LET g1 == discard(g, "ARREST_FAMILY")
             IN  IF g1.raised THEN g1
                 ELSE IF player \notin g1.tile_states[location_map[family_location]].family_members
                 THEN Raise(g1)
                 ELSE choose_reward(
                        [g1 EXCEPT
                           !.tile_states =
                              [[@ EXCEPT ![location_map[family_location]].family_members =
                                            @ \ {player}]
                                  EXCEPT !["POLICE_STATION"].family_members = @ \cup {player}],
                           !.player_states[player].family_location = police_station,
                           !.outstanding_reward_choices = @ + 1],
                        action.reward)

\* take_action, lines 393-402: YellowTileAction and ReturnAssistantCardAction
take_action_return_assistant(g, action) ==
    IF g.raised THEN g ELSE
    LET player == current_player(g)
        g1 == IF action.type = "ReturnAssistantCardAction" THEN discard(g, "RETURN_ASSISTANT")
              ELSE IF "YELLOW" \notin g.player_states[player].tiles THEN Raise(g)
              ELSE spend(g, 2)
        from_tile == location_map[action.from_tile]
    IN  IF g1.raised THEN g1
        ELSE IF player \notin g1.tile_states[from_tile].assistants THEN Raise(g1)
        ELSE LET g2 == [g1 EXCEPT !.tile_states[from_tile].assistants = @ \ {player},
                                  !.player_states[player].stack_size = @ + 1]
             IN  IF action.from_tile \notin g2.player_states[player].assistant_locations
                 THEN Raise(g2)
                 ELSE [g2 EXCEPT !.player_states[player].assistant_locations =
                                    @ \ {action.from_tile}]

\* take_action, lines 406-422: DoubleCardAction
take_action_double_card(g, action) ==
    IF g.raised THEN g ELSE
    LET g1 == discard(g, action.card)
    IN  IF g1.raised THEN g1
        ELSE IF action.card = "DOUBLE_SULTAN"
        THEN LET a1 == action.actions[1]
                 a2 == action.actions[2]
                 g2 == IF a1.type # "SultansPalaceAction" THEN Raise(g1)
                       ELSE handle_sultans_palace_action(g1, a1)
                 g3 == IF g2.raised THEN g2
                       ELSE IF a2.type # "SultansPalaceAction" THEN Raise(g2)
                       ELSE handle_sultans_palace_action(g2, a2)
             IN  encounter_family_members(g3)
        ELSE IF \E i \in 1..2 : action.actions[i].type # "GenericTileAction" THEN Raise(g1)
        ELSE IF action.card = "DOUBLE_PO"
        THEN encounter_family_members(
                handle_post_office_action(handle_post_office_action(g1)))
        ELSE IF action.card = "DOUBLE_DEALER"
        THEN encounter_family_members(
                handle_gemstone_dealer_action(handle_gemstone_dealer_action(g1)))
        ELSE Raise(g1)

\* SellAnyCardAction with a fault: the sale goes through the market's
\* take_action, which looks at the demand
take_action_sell_any_in_demand(g, action) ==
    IF g.raised THEN g ELSE
    LET player == current_player(g)
        g1 == discard(g, "SELL_ANY")
    IN  IF g1.raised THEN g1
        ELSE IF player_tile(g1) # "SMALL_MARKET" THEN Raise(g1)
        ELSE LET g2 == trade(g1, action.action.goods)
                 r == Market_take_action(g2.tile_states["SMALL_MARKET"], action.action.goods)
             IN  IF g2.raised THEN g2
                 ELSE IF r.raised THEN Raise(g2)
                 ELSE LET d == Market_set_demand(r.state, action.action.new_demand)
                      IN  encounter_family_members(
                             [g2 EXCEPT !.player_states[player].lira = @ + r.result,
                                        !.tile_states["SMALL_MARKET"] = d.state,
                                        !.raised = d.raised])

\* take_action, lines 424-434: SellAnyCardAction
take_action_sell_any(g, action) ==
    IF g.raised THEN g ELSE
    LET player == current_player(g)
        g1 == discard(g, "SELL_ANY")
    IN  IF g1.raised THEN g1
        ELSE IF player_tile(g1) # "SMALL_MARKET" THEN Raise(g1)
        ELSE LET g2 == trade(g1, action.action.goods)
                 n == Total(action.action.goods)
                 gain == (((n + 1) * (n + 2)) \div 2) - 1
             IN  IF g2.raised THEN g2
                 ELSE LET d == Market_set_demand(g2.tile_states["SMALL_MARKET"],
                                                 action.action.new_demand)
                      IN  encounter_family_members(
                             [g2 EXCEPT !.player_states[player].lira = @ + gain,
                                        !.tile_states["SMALL_MARKET"] = d.state,
                                        !.raised = d.raised])

\* take_action, lines 436-448: GreenTileAction
take_action_green_tile(g, action) ==
    IF g.raised THEN g ELSE
    LET player == current_player(g)
        tile == player_tile(g)
        warehouse_good == CASE tile = "FABRIC_WAREHOUSE" -> "RED"
                            [] tile = "SPICE_WAREHOUSE" -> "GREEN"
                            [] tile = "FRUIT_WAREHOUSE" -> "YELLOW"
                            [] OTHER -> "BLUE"
    IN  IF "GREEN" \notin g.player_states[player].tiles THEN Raise(g)
        ELSE IF tile \notin {"FABRIC_WAREHOUSE", "SPICE_WAREHOUSE", "FRUIT_WAREHOUSE"}
        THEN Raise(g)
        ELSE encounter_family_members(
                acquire(spend(max_cart(g, warehouse_good), 2), action.good))

\* take_action, lines 451-463: GenericTileAction
take_action_generic(g) ==
    IF g.raised THEN g ELSE
    LET tile == player_tile(g)
        g1 == CASE tile = "POST_OFFICE" -> handle_post_office_action(g)
                [] tile = "FABRIC_WAREHOUSE" -> max_cart(g, "RED")
                [] tile = "FRUIT_WAREHOUSE" -> max_cart(g, "YELLOW")
                [] tile = "FOUNTAIN" -> handle_fountain_action(g, FALSE, {})
                [] tile = "SPICE_WAREHOUSE" -> max_cart(g, "GREEN")
                [] tile = "WAINWRIGHT" -> handle_wainwright_action(g)
                [] tile = "GEMSTONE_DEALER" -> handle_gemstone_dealer_action(g)
                [] OTHER -> Raise(g)
    IN  encounter_family_members(g1)

\* take_action, lines 465-484: the other place-tile actions
take_action_place_tile(g, action) ==
    IF g.raised THEN g ELSE
    LET g1 == CASE action.type = "MosqueAction" -> handle_mosque_action(g, action)
                [] action.type = "PoliceStationAction" -> handle_police_station_action(g, action)
                [] action.type = "FountainAction" ->
                      handle_fountain_action(g, TRUE, action.assistant_locations)
                [] action.type = "BlackMarketAction" -> handle_black_market_action(g, action)
                [] action.type = "CaravansaryAction" -> handle_caravansary_action(g, action)
                [] action.type = "MarketAction" -> handle_market_action(g, action)
                [] action.type = "TeaHouseAction" -> handle_tea_house_action(g, action)
                [] action.type = "SultansPalaceAction" -> handle_sultans_palace_action(g, action)
                [] OTHER -> Raise(g)
    IN  encounter_family_members(g1)

\* _handle_police_station_action with a fault: family_member_acting is not set
\* for the nested action
handle_police_station_action_in_person(g, action) ==
    IF g.raised THEN g ELSE
    LET player == current_player(g)
        tile == player_tile(g)
        destination_tile == location_map[action.location]
    IN  IF tile # "POLICE_STATION" THEN Raise(g)
        ELSE IF player \notin g.tile_states[tile].family_members THEN Raise(g)
        ELSE IF g.player_states[player].location = action.location THEN Raise(g)
        ELSE LET g1 == [g EXCEPT
                          !.tile_states =
                             [[@ EXCEPT ![tile].family_members = @ \ {player}]
                                 EXCEPT ![destination_tile].family_members = @ \cup {player}],
                          !.player_states[player].family_location = action.location]
             IN  IF player \notin g1.tile_states[tile].players THEN Raise(g1)
                 ELSE LET g2 == [g1 EXCEPT
                                   !.tile_states =
                                      [[@ EXCEPT ![tile].players = @ \ {player}]
                                          EXCEPT ![destination_tile].players = @ \cup {player}],
                                   !.player_states[player].location = action.location]
                          g3 == take_action(g2, action.action)
                      IN  IF g3.raised THEN g3
                          ELSE IF player \notin g3.tile_states[destination_tile].players
                          THEN Raise([g3 EXCEPT !.family_member_acting = FALSE])
                          ELSE [g3 EXCEPT
                                  !.family_member_acting = FALSE,
                                  !.tile_states =
                                     [[@ EXCEPT ![destination_tile].players = @ \ {player}]
                                         EXCEPT ![tile].players = @ \cup {player}],
                                  !.player_states[player].location =
                                     location_map_inverse["POLICE_STATION"]]

\* GameState._handle_police_station_action
handle_police_station_action(g, action) ==
    IF g.raised THEN g ELSE
    LET player == current_player(g)
        tile == player_tile(g)
        destination_tile == location_map[action.location]
    IN  IF tile # "POLICE_STATION" THEN Raise(g)
        ELSE IF player \notin g.tile_states[tile].family_members THEN Raise(g)
        ELSE IF g.player_states[player].location = action.location THEN Raise(g)
        ELSE LET g1 == [g EXCEPT
                          !.tile_states =
                             [[@ EXCEPT ![tile].family_members = @ \ {player}]
                                 EXCEPT ![destination_tile].family_members = @ \cup {player}],
                          !.player_states[player].family_location = action.location]
             IN  IF player \notin g1.tile_states[tile].players THEN Raise(g1)
                 ELSE LET g2 == [g1 EXCEPT
                                   !.tile_states =
                                      [[@ EXCEPT ![tile].players = @ \ {player}]
                                          EXCEPT ![destination_tile].players = @ \cup {player}],
                                   !.player_states[player].location = action.location,
                                   !.family_member_acting = TRUE]
                          g3 == take_action(g2, action.action)
                      IN  IF g3.raised THEN g3
                          ELSE IF player \notin g3.tile_states[destination_tile].players
                          THEN Raise([g3 EXCEPT !.family_member_acting = FALSE])
                          ELSE [g3 EXCEPT
                                  !.family_member_acting = FALSE,
                                  !.tile_states =
                                     [[@ EXCEPT ![destination_tile].players = @ \ {player}]
                                         EXCEPT ![tile].players = @ \cup {player}],
                                  !.player_states[player].location =
                                     location_map_inverse["POLICE_STATION"]]

\* take_action, lines 291-484: what follows the turn state's take_action
take_action_dispatch(g, action) ==
    IF g.raised THEN g ELSE
    IF action.type \in {"Move", "ExtraMoveCardAction", "NoMoveCardAction"}
    THEN take_action_assistant(
            IF action.type = "NoMoveCardAction" THEN g ELSE take_action_move(g, action),
            action)
    ELSE CASE action.type = "Pay" -> take_action_pay(g)
           [] action.type = "SkipTileAction" -> encounter_family_members(g)
           [] action.type = "EncounterGovernor" -> take_action_governor(g, action)
           [] action.type = "EncounterSmuggler" -> take_action_smuggler(g, action)
           [] action.type = "OneGoodCardAction" -> acquire(discard(g, "ONE_GOOD"), action.good)
           [] action.type = "FiveLiraCardAction" ->
                 LET g1 == discard(g, "FIVE_LIRA")
                 IN  IF g1.raised THEN g1
                     ELSE [g1 EXCEPT !.player_states[current_player(g)].lira = @ + 5]
           [] action.type = "ArrestFamilyCardAction" -> take_action_arrest_family(g, action)
           [] action.type \in {"YellowTileAction", "ReturnAssistantCardAction"} ->
                 take_action_return_assistant(g, action)
           [] action.type = "DoubleCardAction" -> take_action_double_card(g, action)
           [] action.type = "SellAnyCardAction" -> take_action_sell_any(g, action)
           [] action.type = "GreenTileAction" -> take_action_green_tile(g, action)
           [] action.type = "GenericTileAction" -> take_action_generic(g)
           [] IsPlaceTileAction(action) /\ action.type # "GenericTileAction" ->
                 take_action_place_tile(g, action)
           [] OTHER -> Raise(g)

\* take_action with a fault: a completed game still takes actions
take_action_after_completion(g, action) ==
    IF g.outstanding_reward_choices # 0 /\ action.type = "YieldTurn" THEN Raise(g)
    ELSE IF action.type = "ChooseReward"
    THEN IF g.outstanding_reward_choices = 0 THEN Raise(g) ELSE choose_reward(g, action)
    ELSE IF action.type = "YieldTurn"
    THEN LET g1 == check_completed(g)
             t == TurnState_take_action(g1.turn_state, action)
         IN  [g1 EXCEPT !.turn_state = t.state, !.raised = t.raised]
    ELSE LET t == TurnState_take_action(g.turn_state, action)
         IN  IF t.raised THEN Raise(g)
             ELSE take_action_dispatch([g EXCEPT !.turn_state = t.state], action)

\* GameState.take_action
take_action(g, action) ==
    IF g.completed THEN Raise(g)
    ELSE IF g.outstanding_reward_choices # 0 /\ action.type = "YieldTurn" THEN Raise(g)
    ELSE IF action.type = "ChooseReward"
    THEN IF g.outstanding_reward_choices = 0 THEN Raise(g) ELSE choose_reward(g, action)
    ELSE IF action.type = "YieldTurn"
    THEN LET g1 == check_completed(g)
             t == TurnState_take_action(g1.turn_state, action)
         IN  [g1 EXCEPT !.turn_state = t.state, !.raised = t.raised]
    ELSE LET t == TurnState_take_action(g.turn_state, action)
         IN  IF t.raised THEN Raise(g)
             ELSE take_action_dispatch([g EXCEPT !.turn_state = t.state], action)

-----------------------------------------------------------------------------
(* The state machine: one step is one call of GameState.take_action *)

\* the game the variables hold
State ==
    [turn_state |-> turn_state,
     player_states |-> player_states,
     tile_states |-> tile_states,
     outstanding_reward_choices |-> outstanding_reward_choices,
     family_member_acting |-> family_member_acting,
     completed |-> completed,
     raised |-> FALSE]

\* nothing has been accepted yet in the current turn
NewTurn ==
    [movement |-> "NONE", paid |-> FALSE]

\* what the movement action that took `before` to `after` did with the mover's
\* assistant: the branches of game.py take_action for Move and the move cards
assistant_step(before, after) ==
    LET player == current_player(before)
        stack_before == before.player_states[player].stack_size
        stack_after == after.player_states[player].stack_size
    IN  IF stack_after = stack_before + 1 THEN "PICKED_UP"
        ELSE IF stack_after = stack_before - 1 THEN "PLACED"
        ELSE "NOTHING"

\* the log after the call of action took `before` to `after`: a rejected call
\* logs nothing, an accepted YieldTurn starts the next turn
Logged(before, action, after) ==
    IF after.raised THEN turn_log
    ELSE IF action.type = "YieldTurn" THEN NewTurn
    ELSE IF action.type \in {"Move", "ExtraMoveCardAction", "NoMoveCardAction"}
    THEN [turn_log EXCEPT !.movement = assistant_step(before, after)]
    ELSE IF action.type = "Pay" THEN [turn_log EXCEPT !.paid = TRUE]
    ELSE turn_log

\* the variables hold the game g and no call has been made yet
Holds(g) ==
    /\ turn_state = g.turn_state
    /\ player_states = g.player_states
    /\ tile_states = g.tile_states
    /\ outstanding_reward_choices = g.outstanding_reward_choices
    /\ family_member_acting = g.family_member_acting
    /\ completed = g.completed
    /\ last = [action |-> [type |-> "__init__"], accepted |-> TRUE, phase |-> 1]
    /\ calls = 0
    /\ turn_log = NewTurn

\* one call game.take_action(action): the state is what the call leaves, whether
\* it returned or raised
Call(action) ==
    \E g \in {take_action(State, action)} :
        /\ turn_state' = g.turn_state
        /\ player_states' = g.player_states
        /\ tile_states' = g.tile_states
        /\ outstanding_reward_choices' = g.outstanding_reward_choices
        /\ family_member_acting' = g.family_member_acting
        /\ completed' = g.completed
        /\ last' = [action |-> action, accepted |-> ~g.raised, phase |-> turn_state.current_phase]
        /\ calls' = calls + 1
        /\ turn_log' = Logged(State, action, g)

\* tests/helpers.py create_game: the default market demands
DefaultSmallDemand == [good \in {"RED", "GREEN", "YELLOW"} |-> IF good = "YELLOW" THEN 1 ELSE 2]
DefaultLargeDemand == [good \in Good |-> IF good = "YELLOW" THEN 2 ELSE 1]

\* a freshly constructed game of n players who all start with the card hand
NewGame(n, hand, governor_location, smuggler_location) ==
    GameState(SubSeq(Player, 1, n), DefaultSmallDemand, DefaultLargeDemand,
              governor_location, smuggler_location,
              [p \in {Player[i] : i \in 1..n} |-> hand])

-----------------------------------------------------------------------------
(* The calls a player of the game makes, one action per kind of PlayerAction; *)
(* the arguments are drawn from the sets given                                *)

DoYieldTurn == Call([type |-> "YieldTurn"])

DoMove(tiles, skips) ==
    \E tile \in tiles, skip_assistant \in skips :
        Call([type |-> "Move", tile |-> tile, skip_assistant |-> skip_assistant])

DoExtraMoveCard(tiles, skips) ==
    \E tile \in tiles, skip_assistant \in skips :
        Call([type |-> "ExtraMoveCardAction",
              move |-> [type |-> "Move", tile |-> tile, skip_assistant |-> skip_assistant]])

DoNoMoveCard(skips) ==
    \E skip_assistant \in skips :
        Call([type |-> "NoMoveCardAction", skip_assistant |-> skip_assistant])

DoPay == Call([type |-> "Pay"])

DoChooseReward(choices) ==
    \E choice \in choices : Call([type |-> "ChooseReward", choice |-> choice])

DoSkipTile == Call([type |-> "SkipTileAction"])

DoGenericTile == Call([type |-> "GenericTileAction"])

DoMosque(goods) ==
    \E good \in goods : Call([type |-> "MosqueAction", good_color |-> good])

DoPoliceStation(locations, actions) ==
    \E location \in locations, action \in actions :
        Call([type |-> "PoliceStationAction", location |-> location, action |-> action])

DoFountain(sets) ==
    \E locations \in sets : Call([type |-> "FountainAction", assistant_locations |-> locations])

DoEncounterGovernor(gains, costs, rolls) ==
    \E gain \in gains, cost \in costs, roll \in rolls :
        Call([type |-> "EncounterGovernor", gain |-> gain, cost |-> cost, roll |-> roll])

DoEncounterSmuggler(gains, costs, rolls) ==
    \E gain \in gains, cost \in costs, roll \in rolls :
        Call([type |-> "EncounterSmuggler", gain |-> gain, cost |-> cost, roll |-> roll])

DoOneGoodCard(goods) ==
    \E good \in goods : Call([type |-> "OneGoodCardAction", good |-> good])

DoFiveLiraCard == Call([type |-> "FiveLiraCardAction"])

DoArrestFamilyCard(choices) ==
    \E choice \in choices :
        Call([type |-> "ArrestFamilyCardAction",
              reward |-> [type |-> "ChooseReward", choice |-> choice]])

DoYellowTile(locations) ==
    \E location \in locations : Call([type |-> "YellowTileAction", from_tile |-> location])

DoReturnAssistantCard(locations) ==
    \E location \in locations :
        Call([type |-> "ReturnAssistantCardAction", from_tile |-> location])

DoDoubleCard(cards, actions) ==
    \E card \in cards, action \in actions :
        Call([type |-> "DoubleCardAction", card |-> card, actions |-> <<action, action>>])

DoSellAnyCard(payments, demands) ==
    \E goods \in payments, new_demand \in demands :
        Call([type |-> "SellAnyCardAction",
              action |-> [type |-> "MarketAction", goods |-> goods, new_demand |-> new_demand]])

DoBlackMarket(goods, rolls) ==
    \E good \in goods, roll \in rolls :
        Call([type |-> "BlackMarketAction", good |-> good, roll |-> [type |-> "Roll", roll |-> roll]])

DoSultansPalace(payments) ==
    \E goods \in payments : Call([type |-> "SultansPalaceAction", goods |-> goods])

DoMarket(payments, demands) ==
    \E goods \in payments, new_demand \in demands :
        Call([type |-> "MarketAction", goods |-> goods, new_demand |-> new_demand])

DoCaravansary(gain_lists, costs) ==
    \E gains \in gain_lists, cost \in costs :
        Call([type |-> "CaravansaryAction", gains |-> gains, cost |-> cost])

DoGreenTile(goods) ==
    \E good \in goods : Call([type |-> "GreenTileAction", good |-> good])

-----------------------------------------------------------------------------
(* Spec: games of 2 or 3 players from construction, every player starting   *)
(* with the same card, played for up to MaxCalls calls.  The caller tries   *)
(* an action of every kind in every phase.  The Smuggler is at the Fabric   *)
(* Warehouse (location 3) and the Governor at the Police Station            *)
(* (location 6), both within a Move of the Fountain; the Black Market       *)
(* (location 9) is an ExtraMoveCardAction away.                             *)

MaxCalls == 5

PlayerCounts == {2, 3}

StartCards == {"ONE_GOOD", "EXTRA_MOVE", "NO_MOVE"}

Generic == [type |-> "GenericTileAction"]

Init ==
    \E n \in PlayerCounts, hand \in StartCards : Holds(NewGame(n, hand, 6, 3))

Next ==
    \/ calls < MaxCalls /\ DoYieldTurn
    \/ calls < MaxCalls /\ DoMove({3, 6}, BOOLEAN)
    \/ calls < MaxCalls /\ DoExtraMoveCard({9}, BOOLEAN)
    \/ calls < MaxCalls /\ DoNoMoveCard(BOOLEAN)
    \/ calls < MaxCalls /\ DoPay
    \/ calls < MaxCalls /\ DoSkipTile
    \/ calls < MaxCalls /\ DoGenericTile
    \/ calls < MaxCalls /\ DoMosque({"BLUE"})
    \/ calls < MaxCalls /\ DoPoliceStation({3}, {Generic})
    \/ calls < MaxCalls /\ DoDoubleCard({"DOUBLE_PO"}, {Generic})
    \/ calls < MaxCalls /\ DoSellAnyCard({[k \in {"RED"} |-> 1]}, {DefaultSmallDemand})
    \/ calls < MaxCalls /\ DoGreenTile({"RED"})
    \/ calls < MaxCalls /\ DoChooseReward({"Lira"})
    \/ calls < MaxCalls /\ DoOneGoodCard({"BLUE"})
    \/ calls < MaxCalls /\ DoFiveLiraCard
    \/ calls < MaxCalls /\ DoArrestFamilyCard({"Lira"})
    \/ calls < MaxCalls /\ DoYellowTile({3})
    \/ calls < MaxCalls /\ DoEncounterSmuggler({"BLUE"}, {"Pay"}, {<<1, 1>>})
    \/ calls < MaxCalls /\ DoEncounterGovernor({"FIVE_LIRA"}, {"Pay"}, {<<6, 6>>})

Spec == Init /\ [][Next]_vars

-----------------------------------------------------------------------------
(* SpecCapture: a game of 3 players from construction in which the players  *)
(* go to the Police Station (location 6), send their family members out and *)
(* meet them at the Fruit Warehouse (location 5)                            *)

MaxCaptureCalls == 13

InitCapture == Holds(NewGame(3, "ONE_GOOD", 1, 3))

NextCapture ==
    \/ calls < MaxCaptureCalls /\ DoYieldTurn
    \/ calls < MaxCaptureCalls /\ DoMove({5, 6}, {FALSE})
    \/ calls < MaxCaptureCalls /\ DoPay
    \/ calls < MaxCaptureCalls /\ DoSkipTile
    \/ calls < MaxCaptureCalls /\ DoChooseReward({"Lira"})
    \/ calls < MaxCaptureCalls /\ DoPoliceStation({1, 5}, {Generic})

SpecCapture == InitCapture /\ [][NextCapture]_vars

-----------------------------------------------------------------------------
(* SpecMosque: a game of 2 players from construction in which a player can  *)
(* collect two blue goods (the card and the Smuggler at the Fabric          *)
(* Warehouse, location 3), buy the blue tile at the Great Mosque            *)
(* (location 1) and go on placing and collecting assistants                 *)

MaxMosqueCalls == 13

InitMosque == Holds(NewGame(2, "ONE_GOOD", 1, 3))

NextMosque ==
    \/ calls < MaxMosqueCalls /\ DoYieldTurn
    \/ calls < MaxMosqueCalls /\ DoMove({1, 3}, BOOLEAN)
    \/ calls < MaxMosqueCalls /\ DoSkipTile
    \/ calls < MaxMosqueCalls /\ DoOneGoodCard({"BLUE"})
    \/ calls < MaxMosqueCalls /\ DoEncounterSmuggler({"BLUE"}, {"Pay"}, {<<1, 1>>})
    \/ calls < MaxMosqueCalls /\ DoMosque({"BLUE"})

SpecMosque == InitMosque /\ [][NextMosque]_vars

-----------------------------------------------------------------------------
(* SpecEndgame: games of 2 and 3 players near their end.  The games are     *)
(* played from construction to the position Init starts from: one player,   *)
(* the first or the last in turn order, goes back and forth between the Tea *)
(* House (location 12), where a call of 12 on a roll of 6 and 6 pays 12     *)
(* lira, and the Gemstone Dealer (location 16), where the player buys a     *)
(* ruby whenever the lira suffice; the other players walk between the       *)
(* Fountain and the Fabric Warehouse without placing assistants.  The play  *)
(* stops when it is that player's turn at the Tea House, one ruby short of  *)
(* the victory threshold and with the lira for the next ruby.               *)

MaxEndgameCalls == 7

\* the calls game.take_action(action) for the actions in order
RECURSIVE Play(_, _)
Play(g, actions) ==
    IF actions = <<>> THEN g ELSE Play(take_action(g, Head(actions)), Tail(actions))

\* the turn the current player takes on the way to the endgame
EndgameTurn(g, rich) ==
    LET ps == g.player_states[current_player(g)]
    IN  IF current_player(g) # rich
        THEN <<[type |-> "Move", tile |-> IF ps.location = 7 THEN 3 ELSE 7,
                skip_assistant |-> TRUE],
               [type |-> "YieldTurn"]>>
        ELSE IF ps.location # 12
        THEN <<[type |-> "Move", tile |-> 12, skip_assistant |-> FALSE],
               [type |-> "TeaHouseAction", call |-> 12,
                roll |-> [type |-> "Roll", roll |-> <<6, 6>>]],
               [type |-> "YieldTurn"]>>
        ELSE <<[type |-> "Move", tile |-> 16, skip_assistant |-> FALSE],
               IF ps.lira >= g.tile_states["GEMSTONE_DEALER"].cost
               THEN [type |-> "GenericTileAction"] ELSE [type |-> "SkipTileAction"],
               [type |-> "YieldTurn"]>>

\* the game g played on, turn by turn, until the endgame position
RECURSIVE PlayToEndgame(_, _)
PlayToEndgame(g, rich) ==
    LET ps == g.player_states[rich]
    IN  IF /\ current_player(g) = rich
           /\ ps.location = 12
           /\ ps.rubies = victory_threshold(g) - 1
           /\ ps.lira >= g.tile_states["GEMSTONE_DEALER"].cost
        THEN g
        ELSE PlayToEndgame(Play(g, EndgameTurn(g, rich)), rich)

InitEndgame ==
    \E n \in PlayerCounts :
      \E rich \in {1, n} :
        Holds(PlayToEndgame(NewGame(n, "ONE_GOOD", 1, 3), Player[rich]))

NextEndgame ==
    \/ calls < MaxEndgameCalls /\ DoYieldTurn
    \/ calls < MaxEndgameCalls /\ DoMove({3, 12, 16}, BOOLEAN)
    \/ calls < MaxEndgameCalls /\ DoSkipTile
    \/ calls < MaxEndgameCalls /\ DoGenericTile
    \/ calls < MaxEndgameCalls /\ DoOneGoodCard({"BLUE"})

SpecEndgame == InitEndgame /\ [][NextEndgame]_vars

-----------------------------------------------------------------------------
(* SpecMove: games of 2 players from construction in which the players move *)
(* about the board, with and without the extra-move card                    *)

MaxMoveCalls == 5

\* destinations at every taxicab distance 0..4 from the Fountain (location 7),
\* and at distance 5 and 6 from the Small Mosque (location 4)
MoveTiles == {3, 4, 7, 9, 13, 16}

InitMove ==
    \E hand \in {"EXTRA_MOVE", "ONE_GOOD"} : Holds(NewGame(2, hand, 1, 3))

NextMove ==
    \/ calls < MaxMoveCalls /\ DoYieldTurn
    \/ calls < MaxMoveCalls /\ DoMove(MoveTiles, BOOLEAN)
    \/ calls < MaxMoveCalls /\ DoExtraMoveCard(MoveTiles, BOOLEAN)
    \/ calls < MaxMoveCalls /\ DoSkipTile

SpecMove == InitMove /\ [][NextMove]_vars

-----------------------------------------------------------------------------
(* The assistants of a player *)

\* the assistants a player has on the stack and on the board
assistants_of(p) ==
    player_states[p].stack_size + Cardinality(player_states[p].assistant_locations)

\* C1, as stated: in every reachable state every player has
\* stack_size + |assistant_locations| = 4
C1_FourAssistants ==
    \A p \in DOMAIN player_states : assistants_of(p) = 4

\* C1, amended: in every reachable state every player has
\* stack_size + |assistant_locations| = 4, and 5 once the player holds the blue
\* mosque tile, whose purchase adds one assistant to the stack; apart from that
\* purchase assistants only move between the stack and the board
C1_AssistantsConserved ==
    \A p \in DOMAIN player_states :
        assistants_of(p) = IF "BLUE" \in player_states[p].tiles THEN 5 ELSE 4

\* C1: a player holding the blue tile has collected an assistant from the board
\* and still has one on it
C1_Witness ==
    \E p \in DOMAIN player_states :
        /\ "BLUE" \in player_states[p].tiles
        /\ player_states[p].stack_size = 4
        /\ Cardinality(player_states[p].assistant_locations) = 1

-----------------------------------------------------------------------------
(* Rejected calls *)

\* the fields of the game
game == <<turn_state, player_states, tile_states, outstanding_reward_choices,
          family_member_acting, completed>>

\* C2: whenever take_action rejects an action, the turn state, every player
\* state, every tile state, outstanding_reward_choices, family_member_acting
\* and completed are what they were before the call
C2_RejectionLeavesStateUnchanged ==
    [][~last'.accepted => UNCHANGED game]_vars

-----------------------------------------------------------------------------
(* The phases of a turn *)

MoveActionTypes == {"Move", "ExtraMoveCardAction", "NoMoveCardAction"}

TileActionTypes ==
    PlaceTileActionTypes
        \cup {"SkipTileAction", "DoubleCardAction", "SellAnyCardAction", "GreenTileAction"}

EncounterActionTypes == {"EncounterGovernor", "EncounterSmuggler"}

AllPhaseActionTypes ==
    {"OneGoodCardAction", "FiveLiraCardAction", "ArrestFamilyCardAction", "YellowTileAction"}

\* the phases in which an action of the type may be accepted while yield_required is false
phases_of(type) ==
    CASE type \in MoveActionTypes -> {1}
      [] type = "Pay" -> {2}
      [] type \in TileActionTypes -> {3}
      [] type \in EncounterActionTypes -> {4}
      [] type = "YieldTurn" -> {2, 4}
      [] OTHER -> 1..4

\* C3: with yield_required false, a Move, ExtraMoveCardAction or NoMoveCardAction
\* is accepted only in phase 1, Pay only in phase 2, a facility action,
\* SkipTileAction, DoubleCardAction, SellAnyCardAction or GreenTileAction only in
\* phase 3, an encounter only in phase 4 and YieldTurn only in phase 2 or 4, so
\* in every other phase each is rejected; OneGoodCardAction, FiveLiraCardAction,
\* ArrestFamilyCardAction and YellowTileAction pass the phase check in every phase.
\* The first conjunct is about the calls of take_action, the second about the
\* phase check of each kind of action in the state before the call.
C3_PhaseTable ==
    [][~turn_state.yield_required =>
          /\ last'.accepted => turn_state.current_phase \in phases_of(last'.action.type)
          /\ \A type \in MoveActionTypes \cup TileActionTypes \cup EncounterActionTypes
                          \cup AllPhaseActionTypes \cup {"Pay", "YieldTurn"} :
                valid_action(turn_state, [type |-> type])
                    <=> turn_state.current_phase \in phases_of(type)]_vars

\* C3: an encounter has been accepted in phase 4, after the movement of phase 1
\* and the tile action of phase 3
C3_Witness ==
    /\ last.accepted
    /\ last.action.type = "EncounterSmuggler"
    /\ turn_state.current_phase = 4
    /\ ~turn_state.yield_required

\* the skip_assistant flag of a movement action
skip_assistant_of(action) ==
    IF action.type = "ExtraMoveCardAction" THEN action.move.skip_assistant
    ELSE action.skip_assistant

YieldRequiredActionTypes == {"YieldTurn"} \cup AllPhaseActionTypes

\* C4: an accepted Move, ExtraMoveCardAction or NoMoveCardAction with
\* skip_assistant true sets yield_required; while yield_required is true only
\* YieldTurn, OneGoodCardAction, FiveLiraCardAction, ArrestFamilyCardAction and
\* YellowTileAction are accepted (Pay, facility actions, SkipTileAction and the
\* encounters are rejected), and yield_required stays true after every call but
\* an accepted YieldTurn
C4_YieldRequired ==
    [][/\ (/\ last'.accepted
           /\ last'.action.type \in MoveActionTypes
           /\ skip_assistant_of(last'.action)) => turn_state'.yield_required
       /\ turn_state.yield_required =>
            /\ last'.accepted => last'.action.type \in YieldRequiredActionTypes
            /\ turn_state'.yield_required
                  <=> ~(last'.accepted /\ last'.action.type = "YieldTurn")]_vars

\* C4: a card has been played while yield_required is true, after a movement
\* that skipped the assistant
C4_Witness ==
    /\ turn_state.yield_required
    /\ last.accepted
    /\ last.action.type = "OneGoodCardAction"

\* C5: an accepted YieldTurn sets the phase to 1, clears yield_required and makes
\* the next player in turn order current (index + 1 modulo the player count);
\* any other call, accepted or not, leaves the current player as it is and the
\* phase where it was or further on, within 1..4
C5_TurnOrder ==
    [][IF last'.accepted /\ last'.action.type = "YieldTurn"
       THEN /\ turn_state'.current_phase = 1
            /\ ~turn_state'.yield_required
            /\ turn_state'.current_player_idx =
                  (turn_state.current_player_idx + 1) % Len(turn_state.players)
       ELSE /\ turn_state'.current_player_idx = turn_state.current_player_idx
            /\ turn_state'.current_phase >= turn_state.current_phase
            /\ turn_state'.current_phase \in 1..4]_vars

\* C5: the last player in turn order has yielded, in phase 4 of a turn that
\* skipped phase 2, and the first player is current again
C5_Witness ==
    /\ last.accepted
    /\ last.action.type = "YieldTurn"
    /\ turn_state.current_player_idx = 0
    /\ \E p \in DOMAIN player_states :
          /\ p = turn_state.players[Len(turn_state.players)]
          /\ player_states[p].assistant_locations # {}

-----------------------------------------------------------------------------
(* Family members *)

police_station == location_map_inverse["POLICE_STATION"]

\* the other players whose family member the call has sent to the Police Station
captured ==
    {p \in DOMAIN player_states :
        /\ p # TurnState_current_player(turn_state)
        /\ player_states[p].family_location # police_station
        /\ player_states'[p].family_location = police_station}

\* C6: a call that captures the family members of k other players raises
\* outstanding_reward_choices by exactly k; a YieldTurn while
\* outstanding_reward_choices > 0 is rejected and leaves the turn as it is; and
\* outstanding_reward_choices only goes down by one, through an accepted
\* ChooseReward, so k ChooseReward actions come before the end of the turn
C6_RewardsForCaptures ==
    [][/\ captured # {} =>
            outstanding_reward_choices' = outstanding_reward_choices + Cardinality(captured)
       /\ (outstanding_reward_choices > 0 /\ last'.action.type = "YieldTurn") =>
            ~last'.accepted /\ turn_state' = turn_state
       /\ outstanding_reward_choices' < outstanding_reward_choices =>
            /\ last'.accepted
            /\ last'.action.type = "ChooseReward"
            /\ outstanding_reward_choices' = outstanding_reward_choices - 1]_vars

\* C6: one action has captured the family members of two other players and a
\* YieldTurn has then been tried
C6_Witness ==
    /\ outstanding_reward_choices = 2
    /\ last.action.type = "YieldTurn"
    /\ ~last.accepted

\* C7: after an accepted SkipTileAction, facility action, DoubleCardAction,
\* SellAnyCardAction or GreenTileAction of the current player on a tile other than
\* the Police Station, no other player's family member is on that tile
C7_FamilyMembersCaptured ==
    /\ last.accepted
    /\ last.action.type \in TileActionTypes
    /\ player_states[TurnState_current_player(turn_state)].location # police_station
    => \A p \in DOMAIN player_states \ {TurnState_current_player(turn_state)} :
          /\ player_states[p].family_location
                # player_states[TurnState_current_player(turn_state)].location
          /\ p \notin tile_states[location_map[
                 player_states[TurnState_current_player(turn_state)].location]].family_members

-----------------------------------------------------------------------------
(* The end of the game *)

\* C8: once completed is true it stays true, and every later call of
\* take_action is rejected
C8_CompletedIsFinal ==
    [][completed => completed' /\ ~last'.accepted]_vars

\* C8: a Move has been tried on a completed game
C8_Witness ==
    /\ completed
    /\ last.action.type = "Move"
    /\ ~last.accepted

\* the current player is the last in turn order and some player has the rubies
\* of the victory threshold: 6 with 2 players, 5 with more
victory_due ==
    /\ turn_state.current_player_idx = Len(turn_state.players) - 1
    /\ \E p \in DOMAIN player_states :
          player_states[p].rubies >= (IF Len(turn_state.players) = 2 THEN 6 ELSE 5)

\* C9: completed becomes true exactly in a call that is an accepted YieldTurn of
\* the last player in turn order while some player has rubies >= the victory
\* threshold; so the first player is current again when the game is completed
\* and every player has taken the same number of turns
C9_CompletedOnLastYield ==
    [][/\ (completed' /\ ~completed)
            <=> (last'.accepted /\ last'.action.type = "YieldTurn" /\ victory_due)
       /\ completed' => turn_state'.current_player_idx = 0]_vars

-----------------------------------------------------------------------------
(* Movement *)

\* the destination of a Move or an ExtraMoveCardAction
destination_of(action) ==
    IF action.type = "ExtraMoveCardAction" THEN action.move.tile ELSE action.tile

\* the distance on the 4x4 grid, rows of four locations, between two locations,
\* written out from the coordinates
grid_distance(a, b) ==
    Abs(((a - 1) \div 4) - ((b - 1) \div 4)) + Abs(((a - 1) % 4) - ((b - 1) % 4))

\* C10: a Move is accepted only when the taxicab distance between the location
\* of the current player and the destination is 1 or 2, an ExtraMoveCardAction
\* only when it is 3 or 4; at every other distance the call is rejected and the
\* player stays where it is, and an accepted call leaves the player at the
\* destination
C10_MoveDistance ==
    [][last'.action.type \in {"Move", "ExtraMoveCardAction"} =>
          LET player == TurnState_current_player(turn_state)
              distance == grid_distance(player_states[player].location,
                                        destination_of(last'.action))
              allowed == IF last'.action.type = "Move" THEN {1, 2} ELSE {3, 4}
          IN  /\ last'.accepted => distance \in allowed
              /\ last'.accepted =>
                    player_states'[player].location = destination_of(last'.action)
              /\ distance \notin allowed =>
                    /\ ~last'.accepted
                    /\ player_states'[player].location = player_states[player].location]_vars

\* C10: an ExtraMoveCardAction from the Small Mosque (location 4) to a location 5
\* or 6 away has passed the phase check and the card has been discarded, the
\* other player still holding one, and it has been rejected for the distance
C10_Witness ==
    /\ last.action.type = "ExtraMoveCardAction"
    /\ ~last.accepted
    /\ last.action.move.tile \in {9, 13}
    /\ turn_state.current_phase = 2
    /\ player_states[TurnState_current_player(turn_state)].location = 4
    /\ tile_states["CARAVANSARY"].discard_pile = <<"EXTRA_MOVE">>
    /\ \E p \in DOMAIN player_states : player_states[p].hand["EXTRA_MOVE"] = 1

-----------------------------------------------------------------------------
(* Paying the other players on the tile: players who meet on a warehouse and
   at the police station, one of them after spending lira at the smuggler *)

MaxPayCalls == 9

InitPay ==
    \E n \in PlayerCounts : Holds(NewGame(n, "ONE_GOOD", 1, 3))

NextPay ==
    \/ calls < MaxPayCalls /\ DoYieldTurn
    \/ calls < MaxPayCalls /\ DoMove({3, 6}, BOOLEAN)
    \/ calls < MaxPayCalls /\ DoPay
    \/ calls < MaxPayCalls /\ DoSkipTile
    \/ calls < MaxPayCalls /\ DoGenericTile
    \/ calls < MaxPayCalls /\ DoEncounterSmuggler({"BLUE"}, {"Pay"}, {<<1, 1>>})

SpecPay == InitPay /\ [][NextPay]_vars

-----------------------------------------------------------------------------
(* C11 *)

\* the players other than the current one on the current player's tile
others_on_tile ==
    tile_states[player_tile(State)].players \ {current_player(State)}

\* the call just made was accepted and was a facility action or a SkipTileAction
tile_action_accepted ==
    last.accepted /\ last.action.type \in TileActionTypes

\* C11: a facility action or SkipTileAction of a player who shares a
\* non-Fountain tile with another player is accepted only after a Pay of the
\* same turn has been applied
C11_PayBeforeTileAction ==
    [][(tile_action_accepted' /\ player_tile(State) # "FOUNTAIN" /\ others_on_tile # {}) => turn_log.paid]_vars

-----------------------------------------------------------------------------
(* C12 *)

\* C12: a facility action or SkipTileAction of the current player is accepted
\* only if the movement action of the same turn picked up or placed the
\* player's assistant at the destination, or the player stands on the Fountain
C12_AssistantBeforeTileAction ==
    [][tile_action_accepted' => (turn_log.movement \in {"PICKED_UP", "PLACED"} \/ player_tile(State) = "FOUNTAIN")]_vars

-----------------------------------------------------------------------------
(* C13 *)

\* the current player is the only player on the tile, or the tile is the Fountain
alone_or_fountain ==
    others_on_tile = {} \/ player_tile(State) = "FOUNTAIN"

\* C13: right after an accepted Move, ExtraMoveCardAction or NoMoveCardAction
\* the phase is 3 if the mover is alone on the tile or on the Fountain, else 2
C13_PhaseAfterMovement ==
    (last.accepted /\ last.action.type \in MoveActionTypes)
        => turn_state.current_phase = (IF alone_or_fountain THEN 3 ELSE 2)

\* a player has just moved onto a warehouse where another player stands
C13_Witness ==
    /\ last.accepted /\ last.action.type \in MoveActionTypes
    /\ player_tile(State) # "FOUNTAIN" /\ others_on_tile # {}
    /\ turn_state.current_phase = 2

-----------------------------------------------------------------------------
(* C14 *)

\* the lira of all players together
total_lira(states) ==
    SumOver([p \in DOMAIN states |-> states[p].lira], DOMAIN states)

\* C14: an accepted Pay with k other players on the tile takes 2k lira from
\* the payer, gives 2 to each of the k and keeps the total; a Pay with k = 0
\* or with fewer than 2k lira is rejected
C14_Pay ==
    [][last'.action.type = "Pay" =>
        LET payer == current_player(State)
            k == Cardinality(others_on_tile)
        IN  /\ (k = 0 \/ player_states[payer].lira < 2 * k) => ~last'.accepted
            /\ last'.accepted =>
                  /\ player_states'[payer].lira = player_states[payer].lira - 2 * k
                  /\ \A p \in others_on_tile : player_states'[p].lira = player_states[p].lira + 2
                  /\ total_lira(player_states') = total_lira(player_states)]_vars

\* a Pay to two other players has just been accepted
C14_Witness ==
    /\ last.accepted /\ last.action.type = "Pay"
    /\ Cardinality(others_on_tile) = 2

-----------------------------------------------------------------------------
(* SpecWainwright: games of 2 players played from construction up to the     *)
(* moment one player has bought two cart extensions.  That player alternates *)
(* between the Tea House (location 12), calling 12 and rolling 6 + 6 for 12  *)
(* lira, and the Wainwright (location 15), buying an extension whenever the  *)
(* lira suffice; the other player walks between the Fountain and the Fabric  *)
(* Warehouse without placing assistants.                                     *)

MaxWainwrightCalls == 11

\* the Tea House action that wins 12 lira
TeaHouseTwelve ==
    [type |-> "TeaHouseAction", call |-> 12, roll |-> [type |-> "Roll", roll |-> <<6, 6>>]]

\* the turn of a player who only walks between the Fountain and the Fabric Warehouse
IdleTurn(g) ==
    <<[type |-> "Move", tile |-> IF g.player_states[current_player(g)].location = 7 THEN 3 ELSE 7,
       skip_assistant |-> TRUE],
      [type |-> "YieldTurn"]>>

\* the turn the current player takes on the way to a cart of capacity 4
WainwrightTurn(g, rich) ==
    LET ps == g.player_states[current_player(g)]
    IN  IF current_player(g) # rich THEN IdleTurn(g)
        ELSE IF ps.location # 12
        THEN <<[type |-> "Move", tile |-> 12, skip_assistant |-> FALSE], TeaHouseTwelve,
               [type |-> "YieldTurn"]>>
        ELSE <<[type |-> "Move", tile |-> 15, skip_assistant |-> FALSE],
               IF ps.lira >= 7 THEN [type |-> "GenericTileAction"] ELSE [type |-> "SkipTileAction"],
               [type |-> "YieldTurn"]>>

\* the game g played on, turn by turn, until rich is to move from the Tea House
\* with a cart of capacity 4 and the lira for two more extensions
RECURSIVE PlayToWainwright(_, _)
PlayToWainwright(g, rich) ==
    LET ps == g.player_states[rich]
    IN  IF current_player(g) = rich /\ ps.location = 12 /\ ps.cart_max = 4 /\ ps.lira >= 14
        THEN g
        ELSE PlayToWainwright(Play(g, WainwrightTurn(g, rich)), rich)

InitWainwright ==
    \E rich \in {1, 2} : Holds(PlayToWainwright(NewGame(2, "ONE_GOOD", 1, 3), Player[rich]))

NextWainwright ==
    \/ calls < MaxWainwrightCalls /\ DoYieldTurn
    \/ calls < MaxWainwrightCalls /\ DoMove({12, 15}, BOOLEAN)
    \/ calls < MaxWainwrightCalls /\ DoSkipTile
    \/ calls < MaxWainwrightCalls /\ DoGenericTile

SpecWainwright == InitWainwright /\ [][NextWainwright]_vars

-----------------------------------------------------------------------------
(* C15 *)

\* C15: the cart capacity of every player is between 2 and 5 in every state
C15_CartMax ==
    \A p \in DOMAIN player_states :
        2 <= player_states[p].cart_max /\ player_states[p].cart_max <= 5

-----------------------------------------------------------------------------
(* SpecCart: a game of 2 players played from construction up to the moment   *)
(* Red, back on the Fountain, owns the green mosque tile: Red fills the cart *)
(* with spice at the Spice Warehouse (location 8) and buys the tile at the   *)
(* Small Mosque (location 4); Green walks between the Fountain and the       *)
(* Police Station without placing assistants.  From there the players fill   *)
(* their carts at the warehouses, the Post Office, the Black Market and the  *)
(* smuggler, with the one-good card and with the green tile.                 *)

MaxCartCalls == 7

CartPrefix ==
    <<[type |-> "Move", tile |-> 8, skip_assistant |-> FALSE], Generic, [type |-> "YieldTurn"],
      [type |-> "Move", tile |-> 6, skip_assistant |-> TRUE], [type |-> "YieldTurn"],
      [type |-> "Move", tile |-> 4, skip_assistant |-> FALSE],
      [type |-> "MosqueAction", good_color |-> "GREEN"], [type |-> "YieldTurn"],
      [type |-> "Move", tile |-> 7, skip_assistant |-> TRUE], [type |-> "YieldTurn"],
      [type |-> "Move", tile |-> 7, skip_assistant |-> TRUE], [type |-> "YieldTurn"],
      [type |-> "Move", tile |-> 6, skip_assistant |-> TRUE], [type |-> "YieldTurn"]>>

InitCart ==
    Holds(Play(NewGame(2, "ONE_GOOD", 1, 3), CartPrefix))

NextCart ==
    \/ calls < MaxCartCalls /\ DoYieldTurn
    \/ calls < MaxCartCalls /\ DoMove({2, 3, 5, 9}, BOOLEAN)
    \/ calls < MaxCartCalls /\ DoGenericTile
    \/ calls < MaxCartCalls /\ DoBlackMarket({"YELLOW"}, {<<6, 6>>})
    \/ calls < MaxCartCalls /\ DoEncounterSmuggler({"RED"}, {"Pay"}, {<<1, 1>>})
    \/ calls < MaxCartCalls /\ DoOneGoodCard({"RED", "YELLOW"})
    \/ calls < MaxCartCalls /\ DoGreenTile({"RED", "YELLOW"})

SpecCart == InitCart /\ [][NextCart]_vars

-----------------------------------------------------------------------------
(* C16 *)

\* C16: no cart holds more goods of one colour than its capacity
C16_CartWithinCapacity ==
    \A p \in DOMAIN player_states :
        \A good \in DOMAIN player_states[p].cart_contents :
            player_states[p].cart_contents[good] <= player_states[p].cart_max

\* the Black Market has just given a fruit and three jewelry to a player whose
\* cart was already full of fruit, and the cart is full of both
C16_Witness ==
    /\ last.accepted /\ last.action.type = "BlackMarketAction"
    /\ LET ps == player_states[current_player(State)]
       IN  ps.cart_contents["YELLOW"] = ps.cart_max /\ ps.cart_contents["BLUE"] = ps.cart_max

-----------------------------------------------------------------------------
(* C17 *)

\* C17: no player's lira, cart count or hand count is ever negative
C17_NonNegativeBalances ==
    \A p \in DOMAIN player_states :
        /\ player_states[p].lira >= 0
        /\ \A good \in DOMAIN player_states[p].cart_contents : player_states[p].cart_contents[good] >= 0
        /\ \A card \in DOMAIN player_states[p].hand : player_states[p].hand[card] >= 0

\* a player with fewer than 2 lira has just tried to pay the smuggler, who is on
\* the player's tile, in the phase for encounters, and was rejected
C17_Witness ==
    /\ ~last.accepted /\ last.action.type = "EncounterSmuggler" /\ last.action.cost = "Pay"
    /\ turn_state.current_phase = 4 /\ ~turn_state.yield_required
    /\ tile_states[player_tile(State)].smuggler
    /\ player_states[current_player(State)].lira < 2

-----------------------------------------------------------------------------
(* SpecSultan: a game of 2 players played from construction up to the moment *)
(* Red stands on the Fruit Warehouse (location 5) with a cart of 2 fabric,   *)
(* 2 spice and 2 fruit, two moves from the Sultan's Palace (location 13);    *)
(* Green walks between the Fountain and the Small Market without placing     *)
(* assistants.  From there Red offers the palace payments of several kinds.  *)

MaxSultanCalls == 6

SultanPrefix ==
    <<[type |-> "Move", tile |-> 3, skip_assistant |-> FALSE], Generic, [type |-> "YieldTurn"],
      [type |-> "Move", tile |-> 11, skip_assistant |-> TRUE], [type |-> "YieldTurn"],
      [type |-> "Move", tile |-> 8, skip_assistant |-> FALSE], Generic, [type |-> "YieldTurn"],
      [type |-> "Move", tile |-> 7, skip_assistant |-> TRUE], [type |-> "YieldTurn"],
      [type |-> "Move", tile |-> 6, skip_assistant |-> TRUE], [type |-> "YieldTurn"],
      [type |-> "Move", tile |-> 11, skip_assistant |-> TRUE], [type |-> "YieldTurn"],
      [type |-> "Move", tile |-> 5, skip_assistant |-> FALSE], Generic, [type |-> "YieldTurn"],
      [type |-> "Move", tile |-> 7, skip_assistant |-> TRUE], [type |-> "YieldTurn"]>>

\* a payment that covers the requirement of 5 goods: one of each colour and one more
FullPayment ==
    [good \in Good |-> IF good = "RED" THEN 2 ELSE 1]

\* a payment of 5 goods without any jewelry
NoBluePayment ==
    [good \in {"RED", "GREEN", "YELLOW"} |-> IF good = "YELLOW" THEN 1 ELSE 2]

\* a payment of 4 goods
ShortPayment ==
    [good \in {"RED", "GREEN"} |-> 2]

InitSultan ==
    Holds(Play(NewGame(2, "ONE_GOOD", 1, 3), SultanPrefix))

NextSultan ==
    \/ calls < MaxSultanCalls /\ DoYieldTurn
    \/ calls < MaxSultanCalls /\ DoMove({5, 9, 13}, BOOLEAN)
    \/ calls < MaxSultanCalls /\ DoSkipTile
    \/ calls < MaxSultanCalls /\ DoOneGoodCard({"BLUE"})
    \/ calls < MaxSultanCalls /\ DoSultansPalace({FullPayment, NoBluePayment, ShortPayment})

SpecSultan == InitSultan /\ [][NextSultan]_vars

-----------------------------------------------------------------------------
(* C18 *)

\* C18: a purchase at the Sultan's Palace is accepted only if the payment has
\* as many goods as the palace requires and, for every colour, at least as
\* many as required() lists; an accepted purchase raises required_count by 1
C18_SultansPalacePayment ==
    [][(last'.accepted /\ last'.action.type = "SultansPalaceAction") =>
        LET required == SultansPalace_required(tile_states["SULTANS_PALACE"])
            payment == last'.action.goods
        IN  /\ required # None
            /\ Total(payment) = Total(required)
            /\ \A good \in Good : Count(payment, good) >= Count(required, good)
            /\ tile_states'["SULTANS_PALACE"].required_count
                 = tile_states["SULTANS_PALACE"].required_count + 1]_vars

-----------------------------------------------------------------------------
(* SpecPalace: a game of 2 players, both starting with the double-sultan     *)
(* card.  The first calls are scripted: they take Red to five rubies bought  *)
(* at the Sultan's Palace and to the Black Market (location 9) with the      *)
(* goods for the sixth and last; all of them are accepted.  After the script *)
(* the caller makes any calls of the menu.  Red walks a round of the Spice   *)
(* Warehouse (8), the Fabric Warehouse (3), the Fountain (7), the Fruit      *)
(* Warehouse (5), the Black Market (9), the Sultan's Palace (13), the        *)
(* Caravansary (10, passing only) and the Fountain, filling the cart on the  *)
(* way, and after the fourth round wins 12 lira at the Tea House (12) and    *)
(* buys a cart extension at the Wainwright (15).  Green walks between the    *)
(* Caravansary and the Large Market (14) without placing assistants.         *)

MaxPalaceCalls == 7

SultanRound == <<8, 3, 7, 5, 9, 13, 10, 7>>

SultanRoute ==
    SultanRound \o SultanRound \o SultanRound \o SultanRound \o <<12, 15, 7>>
        \o SultanRound \o <<8, 3, 7, 5, 9>>

\* the payment Red makes for the requirement of count goods: what required()
\* lists, with fruit, then spice, for the goods of any colour
SultanPayment(count) ==
    [good \in Good |->
        CASE good = "BLUE" -> IF count >= 6 THEN 2 ELSE 1
          [] good = "RED" -> IF count >= 7 THEN 2 ELSE 1
          [] good = "GREEN" -> IF count >= 10 THEN 3 ELSE IF count >= 8 THEN 2 ELSE 1
          [] good = "YELLOW" -> IF count >= 9 THEN 3 ELSE 2]

\* a payment of no goods
EmptyPayment == [good \in {} |-> 0]

\* Red's turn on the route: a move to the tile and the tile's action, the
\* payment at the palace being the one for the requirement of count goods
RouteTurn(tile, count) ==
    IF tile = 10
    THEN <<[type |-> "Move", tile |-> 10, skip_assistant |-> TRUE], [type |-> "YieldTurn"]>>
    ELSE <<[type |-> "Move", tile |-> tile, skip_assistant |-> FALSE],
           CASE tile = 13 -> [type |-> "SultansPalaceAction", goods |-> SultanPayment(count)]
             [] tile = 9 -> [type |-> "BlackMarketAction", good |-> "RED",
                             roll |-> [type |-> "Roll", roll |-> <<6, 6>>]]
             [] tile = 12 -> TeaHouseTwelve
             [] OTHER -> Generic,
           [type |-> "YieldTurn"]>>

\* Green's i-th turn: a walk to the Caravansary or back to the Large Market
PaceTurn(i) ==
    <<[type |-> "Move", tile |-> IF i % 2 = 1 THEN 10 ELSE 14, skip_assistant |-> TRUE],
      [type |-> "YieldTurn"]>>

\* the calls of the turns i, i + 1, ... of the route: Red's turn, then Green's
RECURSIVE RouteCalls(_)
RouteCalls(i) ==
    IF i > Len(SultanRoute) THEN <<>>
    ELSE RouteTurn(SultanRoute[i], 5 + Cardinality({j \in 1..(i - 1) : SultanRoute[j] = 13}))
            \o PaceTurn(i) \o RouteCalls(i + 1)

\* the calls made on the way to the last ruby of the palace
PalaceScript == RouteCalls(1)

InitPalace ==
    Holds(NewGame(2, "DOUBLE_SULTAN", 1, 3))

\* the scripted calls one by one, then up to MaxPalaceCalls calls of the menu
NextPalace ==
    \/ calls < Len(PalaceScript) /\ Call(PalaceScript[calls + 1])
    \/ Len(PalaceScript) <= calls /\ calls < Len(PalaceScript) + MaxPalaceCalls /\ DoYieldTurn
    \/ Len(PalaceScript) <= calls /\ calls < Len(PalaceScript) + MaxPalaceCalls /\ DoMove({13, 14}, BOOLEAN)
    \/ Len(PalaceScript) <= calls /\ calls < Len(PalaceScript) + MaxPalaceCalls /\ DoPay
    \/ Len(PalaceScript) <= calls /\ calls < Len(PalaceScript) + MaxPalaceCalls /\ DoSkipTile
    \/ Len(PalaceScript) <= calls /\ calls < Len(PalaceScript) + MaxPalaceCalls /\ DoSultansPalace({SultanPayment(10), EmptyPayment})
    \/ Len(PalaceScript) <= calls /\ calls < Len(PalaceScript) + MaxPalaceCalls /\ DoDoubleCard({"DOUBLE_SULTAN"}, {[type |-> "SultansPalaceAction", goods |-> EmptyPayment]})

SpecPalace == InitPalace /\ [][NextPalace]_vars

-----------------------------------------------------------------------------
(* C19 *)

\* the action is a purchase at the Sultan's Palace, single or with the card
palace_purchase(action) ==
    \/ action.type = "SultansPalaceAction"
    \/ action.type = "DoubleCardAction" /\ action.card = "DOUBLE_SULTAN"

\* the Sultan's Palace has no ruby left
palace_sold_out ==
    tile_states["SULTANS_PALACE"].required_count > 10

\* C19: once required_count exceeds 10, required() is None and every purchase
\* at the Sultan's Palace, single or with the double-sultan card, is rejected;
\* required_count never decreases
C19_PalaceSoldOut ==
    [][/\ tile_states'["SULTANS_PALACE"].required_count >= tile_states["SULTANS_PALACE"].required_count
       /\ palace_sold_out =>
            /\ SultansPalace_required(tile_states["SULTANS_PALACE"]) = None
            /\ palace_purchase(last'.action) => ~last'.accepted]_vars

\* a player standing on the sold-out palace in a game that is not over has
\* just offered a payment of no goods, which the cart can cover, and was rejected
C19_Witness ==
    /\ palace_sold_out /\ ~completed
    /\ ~last.accepted /\ last.action.type = "SultansPalaceAction" /\ last.action.goods = EmptyPayment
    /\ player_tile(State) = "SULTANS_PALACE"
    /\ last.phase = 3 /\ turn_log.movement = "PLACED"

\* ---------------------------------------------------------------------------
\* The Gemstone Dealer sold to its last ruby: a 2-player game in which both
\* players hold the double-dealer card.  Red buys at 15 to 19 lira while Green
\* walks, then Green buys at 20 and 21 with the card and at 22 and 23 singly
\* while Red walks, each paying with Tea House winnings.  The scripted calls
\* end with Green standing on the dealer, 25 lira in hand, the price at 24.

MaxDealerCalls == 6

RedDealerRoute == <<12, 15, 12, 16, 12, 16, 12, 15, 12, 16, 12, 16, 12, 16, 12>>

GreenDealerRoute == <<12, 11, 12, 11, 12, 11, 12, 16, 12, 16, 12, 11, 12, 16, 12, 11, 12, 16>>

DoubleDealer == [type |-> "DoubleCardAction", card |-> "DOUBLE_DEALER", actions |-> <<Generic, Generic>>]

\* a turn on a dealer route: a move to the tile, then the Tea House call, the
\* dealer purchase (single, or twice with the card) or no action
DealerTurn(tile, card) ==
    <<[type |-> "Move", tile |-> tile, skip_assistant |-> FALSE],
      CASE tile = 12 -> TeaHouseTwelve
        [] tile = 16 -> IF card THEN DoubleDealer ELSE Generic
        [] OTHER -> [type |-> "SkipTileAction"],
      [type |-> "YieldTurn"]>>

\* Red's i-th turn off the route: a walk to the Wainwright or back to the Large Market
WalkTurn(i) ==
    <<[type |-> "Move", tile |-> IF i % 2 = 1 THEN 15 ELSE 14, skip_assistant |-> TRUE],
      [type |-> "YieldTurn"]>>

\* the calls of the rounds i, i + 1, ... in which Red is on its route
RECURSIVE RedDealerCalls(_)
RedDealerCalls(i) ==
    IF i > Len(RedDealerRoute) THEN <<>>
    ELSE DealerTurn(RedDealerRoute[i], FALSE) \o PaceTurn(i) \o RedDealerCalls(i + 1)

\* the calls of the rounds i, i + 1, ... in which Green is on its route; on
\* the 8th, its first visit to the dealer, Green plays the double-dealer card
RECURSIVE GreenDealerCalls(_)
GreenDealerCalls(i) ==
    IF i > Len(GreenDealerRoute) THEN <<>>
    ELSE WalkTurn(i) \o DealerTurn(GreenDealerRoute[i], i = 8) \o GreenDealerCalls(i + 1)

\* the calls made up to Green's last move to the dealer
DealerScript ==
    LET played == RedDealerCalls(1) \o GreenDealerCalls(1)
    IN  SubSeq(played, 1, Len(played) - 2)

InitDealer ==
    Holds(NewGame(2, "DOUBLE_DEALER", 1, 3))

\* the scripted calls one by one, then up to MaxDealerCalls calls of the menu
NextDealer ==
    \/ calls < Len(DealerScript) /\ Call(DealerScript[calls + 1])
    \/ Len(DealerScript) <= calls /\ calls < Len(DealerScript) + MaxDealerCalls /\ DoYieldTurn
    \/ Len(DealerScript) <= calls /\ calls < Len(DealerScript) + MaxDealerCalls /\ DoMove({15, 16}, BOOLEAN)
    \/ Len(DealerScript) <= calls /\ calls < Len(DealerScript) + MaxDealerCalls /\ DoPay
    \/ Len(DealerScript) <= calls /\ calls < Len(DealerScript) + MaxDealerCalls /\ DoSkipTile
    \/ Len(DealerScript) <= calls /\ calls < Len(DealerScript) + MaxDealerCalls /\ DoGenericTile
    \/ Len(DealerScript) <= calls /\ calls < Len(DealerScript) + MaxDealerCalls /\ DoDoubleCard({"DOUBLE_DEALER"}, {Generic})

SpecDealer == InitDealer /\ [][NextDealer]_vars

\* the price of the next ruby at the Gemstone Dealer, NoCost when none is left
dealer_cost == tile_states["GEMSTONE_DEALER"].cost

\* the price after a purchase made at the price cost
cost_after(cost) == IF cost = 24 THEN NoCost ELSE cost + 1

\* the call is a single purchase at the Gemstone Dealer by the player on it
single_purchase(action) ==
    action.type = "GenericTileAction" /\ player_tile(State) = "GEMSTONE_DEALER"

\* the call is a purchase of two with the double-dealer card
double_purchase(action) ==
    action.type = "DoubleCardAction" /\ action.card = "DOUBLE_DEALER"

\* C20: an accepted Gemstone Dealer purchase charges the buyer the price shown
\* before it, gives one ruby and raises the price by 1 (the card makes two
\* purchases in a row); the purchase at 24 leaves no ruby, and from then on
\* the dealer stays sold out and every purchase attempt, single or with the
\* double-dealer card, is rejected
C20_GemstoneDealer ==
    [][LET buyer == current_player(State)
           before == player_states[buyer]
           after == player_states'[buyer]
       IN  /\ (single_purchase(last'.action) /\ last'.accepted) =>
                /\ dealer_cost # NoCost
                /\ after.lira = before.lira - dealer_cost
                /\ after.rubies = before.rubies + 1
                /\ dealer_cost' = cost_after(dealer_cost)
           /\ (double_purchase(last'.action) /\ last'.accepted) =>
                /\ dealer_cost # NoCost /\ cost_after(dealer_cost) # NoCost
                /\ after.lira = before.lira - dealer_cost - cost_after(dealer_cost)
                /\ after.rubies = before.rubies + 2
                /\ dealer_cost' = cost_after(cost_after(dealer_cost))
           /\ dealer_cost = NoCost =>
                /\ dealer_cost' = NoCost
                /\ (single_purchase(last'.action) \/ double_purchase(last'.action)) => ~last'.accepted]_vars

\* the last ruby was bought at 24 lira and the game goes on; a player who came
\* to the dealer afterwards, paid the other player and holds 11 lira has just
\* played the double-dealer card there and was rejected
C20_Witness ==
    /\ dealer_cost = NoCost /\ ~completed
    /\ player_states["Green"].rubies = 5 /\ player_states["Green"].lira = 3
    /\ ~last.accepted /\ double_purchase(last.action) /\ last.phase = 3
    /\ player_tile(State) = "GEMSTONE_DEALER" /\ current_player(State) = "Red"
    /\ turn_log.paid /\ player_states["Red"].lira = 11

\* ---------------------------------------------------------------------------
\* The Wainwright sold to its last extension: a 2-player game in which Red
\* buys three extensions with Tea House winnings while Green walks, then Green
\* buys two while Red walks.  The scripted calls end with Green standing on
\* the Wainwright, 25 lira in hand, one extension left.

MaxExtensionCalls == 6

RedCartRoute == <<12, 15, 12, 15, 12, 15, 12>>

GreenCartRoute == <<12, 15, 12, 15, 12, 15>>

\* a turn on a cart route: a move to the tile, then the Tea House call or the
\* purchase of an extension
CartTurn(tile) ==
    <<[type |-> "Move", tile |-> tile, skip_assistant |-> FALSE],
      IF tile = 12 THEN TeaHouseTwelve ELSE Generic,
      [type |-> "YieldTurn"]>>

\* Red's i-th turn off the route: a walk to the Gemstone Dealer or back to the Small Market
StrollTurn(i) ==
    <<[type |-> "Move", tile |-> IF i % 2 = 1 THEN 16 ELSE 11, skip_assistant |-> TRUE],
      [type |-> "YieldTurn"]>>

\* the calls of the rounds i, i + 1, ... in which Red is on its route
RECURSIVE RedCartCalls(_)
RedCartCalls(i) ==
    IF i > Len(RedCartRoute) THEN <<>>
    ELSE CartTurn(RedCartRoute[i]) \o PaceTurn(i) \o RedCartCalls(i + 1)

\* the calls of the rounds i, i + 1, ... in which Green is on its route
RECURSIVE GreenCartCalls(_)
GreenCartCalls(i) ==
    IF i > Len(GreenCartRoute) THEN <<>>
    ELSE StrollTurn(i) \o CartTurn(GreenCartRoute[i]) \o GreenCartCalls(i + 1)

\* the calls made up to Green's last move to the Wainwright
ExtensionScript ==
    LET played == RedCartCalls(1) \o GreenCartCalls(1)
    IN  SubSeq(played, 1, Len(played) - 2)

InitExtension ==
    Holds(NewGame(2, "ONE_GOOD", 1, 3))

\* the scripted calls one by one, then up to MaxExtensionCalls calls of the menu
NextExtension ==
    \/ calls < Len(ExtensionScript) /\ Call(ExtensionScript[calls + 1])
    \/ Len(ExtensionScript) <= calls /\ calls < Len(ExtensionScript) + MaxExtensionCalls /\ DoYieldTurn
    \/ Len(ExtensionScript) <= calls /\ calls < Len(ExtensionScript) + MaxExtensionCalls /\ DoMove({15, 16}, BOOLEAN)
    \/ Len(ExtensionScript) <= calls /\ calls < Len(ExtensionScript) + MaxExtensionCalls /\ DoPay
    \/ Len(ExtensionScript) <= calls /\ calls < Len(ExtensionScript) + MaxExtensionCalls /\ DoSkipTile
    \/ Len(ExtensionScript) <= calls /\ calls < Len(ExtensionScript) + MaxExtensionCalls /\ DoGenericTile

SpecExtension == InitExtension /\ [][NextExtension]_vars

\* the extensions the Wainwright has left
extensions == tile_states["WAINWRIGHT"].extensions

\* the call is a purchase at the Wainwright by the player on it
extension_purchase(action) ==
    action.type = "GenericTileAction" /\ player_tile(State) = "WAINWRIGHT"

\* C21: the Wainwright's counter of remaining extensions starts at 3 times the
\* number of players, goes down by exactly 1 with each accepted purchase, is
\* never negative, and a purchase attempted at 0 is rejected and leaves it at 0
C21_WainwrightExtensions ==
    /\ extensions = 3 * Len(turn_state.players)
    /\ [][/\ extensions' >= 0
          /\ (extension_purchase(last'.action) /\ last'.accepted) => extensions' = extensions - 1
          /\ (extension_purchase(last'.action) /\ extensions = 0) =>
                (~last'.accepted /\ extensions' = 0)]_vars

\* ---------------------------------------------------------------------------
\* Sales at the markets: a 2-player game in which Red has filled its cart
\* with fabric and spice and Green with fruit.  Red stands on the Spice
\* Warehouse (location 8) and Green on the Caravansary (10), each within a
\* Move of the Small Market (11); the Large Market (14) is a Move from Green.

MaxMarketCalls == 7

MarketPrefix ==
    <<[type |-> "Move", tile |-> 3, skip_assistant |-> FALSE], Generic, [type |-> "YieldTurn"],
      [type |-> "Move", tile |-> 5, skip_assistant |-> FALSE], Generic, [type |-> "YieldTurn"],
      [type |-> "Move", tile |-> 8, skip_assistant |-> FALSE], Generic, [type |-> "YieldTurn"],
      [type |-> "Move", tile |-> 10, skip_assistant |-> FALSE], [type |-> "SkipTileAction"],
      [type |-> "YieldTurn"]>>

\* a demand of four goods, which set_demand refuses
ShortDemand == [good \in {"RED", "GREEN"} |-> 2]

\* the goods offered for sale: three within the Small Market's demand, two
\* fruit or two spice, which the Small or the Large Market does not want
SalePayments ==
    {[good \in {"RED", "GREEN"} |-> IF good = "RED" THEN 2 ELSE 1],
     [good \in {"YELLOW"} |-> 2], [good \in {"GREEN"} |-> 2]}

InitMarket ==
    Holds(Play(NewGame(2, "ONE_GOOD", 1, 3), MarketPrefix))

NextMarket ==
    \/ calls < MaxMarketCalls /\ DoYieldTurn
    \/ calls < MaxMarketCalls /\ DoMove({11, 14}, BOOLEAN)
    \/ calls < MaxMarketCalls /\ DoPay
    \/ calls < MaxMarketCalls /\ DoSkipTile
    \/ calls < MaxMarketCalls /\ DoMarket(SalePayments, {DefaultSmallDemand, ShortDemand})

SpecMarket == InitMarket /\ [][NextMarket]_vars

\* one_cost + (one_cost + 1) + ... + (one_cost + n - 1)
RECURSIVE sale_price(_, _)
sale_price(one_cost, n) == IF n = 0 THEN 0 ELSE sale_price(one_cost, n - 1) + one_cost + n - 1

\* C22: a sale at a market is accepted only if the market has a demand, is not
\* expecting a new one and wants at least as many of each good as are sold;
\* n goods then pay one_cost + ... + (one_cost + n - 1) lira, one_cost being 2
\* at the Small and 3 at the Large Market, and the market's take_action leaves
\* it expecting a new demand
C22_MarketSale ==
    [][(last'.action.type = "MarketAction" /\ last'.accepted) =>
         LET seller == current_player(State)
             market == tile_states[player_tile(State)]
             goods == last'.action.goods
         IN  /\ player_tile(State) \in {"SMALL_MARKET", "LARGE_MARKET"}
             /\ market.one_cost = IF player_tile(State) = "SMALL_MARKET" THEN 2 ELSE 3
             /\ market.demand # None /\ ~market.expecting_demand
             /\ \A good \in Good : Count(goods, good) <= Count(market.demand, good)
             /\ player_states'[seller].lira
                    = player_states[seller].lira + sale_price(market.one_cost, Total(goods))
             /\ Market_take_action(market, goods).result = sale_price(market.one_cost, Total(goods))
             /\ Market_take_action(market, goods).state.expecting_demand]_vars

\* Red has just sold two fabric and one spice at the Small Market for 9 lira
C22_Witness ==
    /\ last.accepted /\ last.action.type = "MarketAction" /\ Total(last.action.goods) = 3
    /\ player_tile(State) = "SMALL_MARKET" /\ current_player(State) = "Red"
    /\ player_states["Red"].lira = 2 + 9
    /\ player_states["Red"].cart_contents["RED"] = 0
    /\ player_states["Red"].cart_contents["GREEN"] = 1

\* ---------------------------------------------------------------------------
\* Pairs of mosque tiles: a 2-player game in which Green buys the red and the
\* green tile at the Small Mosque (location 4) with goods from the Fabric and
\* Spice Warehouses, while Red fills its cart with fruit and jewelry at the
\* Fruit Warehouse (5) and the Black Market (9).  The scripted calls end with
\* Red standing on the Great Mosque (1) with two fruit and two jewelry, Green
\* on the Post Office (2) with a ruby for its pair.

MaxTileCalls == 11

\* a turn spent on a tile: the move to it, the action there, the end of the turn
Visit(tile, action) ==
    <<[type |-> "Move", tile |-> tile, skip_assistant |-> FALSE], action, [type |-> "YieldTurn"]>>

\* a turn spent walking to a tile, no assistant picked up or placed
Walk(tile) ==
    <<[type |-> "Move", tile |-> tile, skip_assistant |-> TRUE], [type |-> "YieldTurn"]>>

TileScript ==
    Visit(5, Generic) \o Visit(3, Generic)
      \o Visit(9, [type |-> "BlackMarketAction", good |-> "YELLOW", roll |-> [type |-> "Roll", roll |-> <<6, 6>>]])
      \o Visit(8, Generic)
      \o Walk(5) \o Visit(4, [type |-> "MosqueAction", good_color |-> "RED"])
      \o Walk(9) \o Visit(8, [type |-> "SkipTileAction"])
      \o Walk(5) \o Visit(4, [type |-> "MosqueAction", good_color |-> "GREEN"])
      \o Walk(9) \o Walk(2)
      \o <<[type |-> "Move", tile |-> 1, skip_assistant |-> FALSE]>>

InitTile ==
    Holds(NewGame(2, "ONE_GOOD", 1, 3))

\* the scripted calls one by one, then up to MaxTileCalls calls of the menu
NextTile ==
    \/ calls < Len(TileScript) /\ Call(TileScript[calls + 1])
    \/ Len(TileScript) <= calls /\ calls < Len(TileScript) + MaxTileCalls /\ DoYieldTurn
    \/ Len(TileScript) <= calls /\ calls < Len(TileScript) + MaxTileCalls /\ DoMove({1, 5}, BOOLEAN)
    \/ Len(TileScript) <= calls /\ calls < Len(TileScript) + MaxTileCalls /\ DoPay
    \/ Len(TileScript) <= calls /\ calls < Len(TileScript) + MaxTileCalls /\ DoSkipTile
    \/ Len(TileScript) <= calls /\ calls < Len(TileScript) + MaxTileCalls /\ DoMosque({"BLUE", "YELLOW"})

SpecTile == InitTile /\ [][NextTile]_vars

\* the colour that makes a pair with the colour good
partner(good) ==
    CASE good = "BLUE" -> "YELLOW" [] good = "YELLOW" -> "BLUE"
      [] good = "RED" -> "GREEN" [] good = "GREEN" -> "RED"

\* the number of pairs among the mosque tiles owned
pairs_owned(owned) ==
    (IF {"BLUE", "YELLOW"} \subseteq owned THEN 1 ELSE 0)
        + (IF {"RED", "GREEN"} \subseteq owned THEN 1 ELSE 0)

\* C23: an accepted MosqueAction gives one ruby if the player owns the other
\* tile of the pair and none otherwise; a MosqueAction for a colour the player
\* owns is rejected; so mosque tiles, the only source of rubies in these games,
\* have given each player as many rubies as it owns pairs, at most 2
C23_MosquePairs ==
    /\ [](\A p \in DOMAIN player_states :
            player_states[p].rubies = pairs_owned(player_states[p].tiles))
    /\ [][last'.action.type = "MosqueAction" =>
            LET buyer == current_player(State)
                good == last'.action.good_color
                owned == player_states[buyer].tiles
            IN  /\ good \in owned => ~last'.accepted
                /\ last'.accepted =>
                     /\ player_states'[buyer].tiles = owned \cup {good}
                     /\ player_states'[buyer].rubies = player_states[buyer].rubies
                            + (IF partner(good) \in owned THEN 1 ELSE 0)]_vars

\* Green owns the red and the green tile and a ruby for them; Red, back on
\* the Great Mosque, has just completed the other pair and has its ruby
C23_Witness ==
    /\ player_states["Red"].tiles = {"BLUE", "YELLOW"} /\ player_states["Red"].rubies = 1
    /\ player_states["Green"].tiles = {"RED", "GREEN"} /\ player_states["Green"].rubies = 1
    /\ last.action.type = "MosqueAction" /\ last.accepted
    /\ current_player(State) = "Red" /\ player_tile(State) = "GREAT_MOSQUE"

\* C24: an accepted MosqueAction for the blue tile raises the buyer's
\* stack_size by exactly 1, whether or not the player owns the yellow tile;
\* for a tile of another colour it leaves stack_size as it was
C24_BlueTileAssistant ==
    [][(last'.action.type = "MosqueAction" /\ last'.accepted) =>
         LET buyer == current_player(State)
         IN  player_states'[buyer].stack_size = player_states[buyer].stack_size
                + (IF last'.action.good_color = "BLUE" THEN 1 ELSE 0)]_vars

\* Red, who owned the yellow tile and came back to the Great Mosque by picking
\* up its assistant there, has just acquired the blue tile: a pair, a ruby and
\* a stack of 3
C24_Witness ==
    /\ last.action.type = "MosqueAction" /\ last.accepted /\ last.action.good_color = "BLUE"
    /\ current_player(State) = "Red" /\ player_states["Red"].tiles = {"BLUE", "YELLOW"}
    /\ player_states["Red"].rubies = 1 /\ turn_log.movement = "PICKED_UP"
    /\ player_states["Red"].stack_size = 3

\* ---------------------------------------------------------------------------
\* The price ladder of a mosque tile: a 5-player game in which Red, Green,
\* Blue and Yellow, one after the other, buy the red tile of the Small Mosque
\* (location 4) at 2, 3, 4 and 5 fabric.  Each first extends its cart at the
\* Wainwright (15) with Tea House (12) winnings as far as the price requires
\* and fills it at the Fabric Warehouse (3); the others walk between the
\* Police Station (6) and the Post Office (2).  White fills its cart early and
\* waits.  The scripted calls end with Yellow standing on the Small Mosque
\* with 5 fabric, the price at 5, White next to it with 2 fabric.

MaxLadderCalls == 6

\* the turns of each player, round by round: t for a turn spent on location
\* t, -t for a walk to it
LadderRoutes ==
    <<<<3, 4, -2, -6, -2, -6, -2, -6, -2, -6, -2, -6, -2, -6, -2, -6, -2, -6, -2, -6, -2, -6, -2, -6, -2, -6>>,
      <<-6, -2, -7, 12, 15, -7, 3, 4, -2, -6, -2, -6, -2, -6, -2, -6, -2, -6, -2, -6, -2, -6, -2, -6, -2, -6>>,
      <<-6, -2, -6, -2, -6, -2, -6, -2, -7, 12, 15, 12, 15, -7, 3, 4, -2, -6, -2, -6, -2, -6, -2, -6, -2, -6>>,
      <<-6, -2, -6, -2, -6, -2, -6, -2, -6, -2, -6, -2, -6, -2, -6, -2, -7, 12, 15, 12, 15, 12, 15, -7, 3, 4>>,
      <<-6, 3, -2, -6, -2, -6, -2, -6, -2, -6, -2, -6, -2, -6, -2, -6, -2, -6, -2, -6, -2, -6, -2, -6, -2, -6>>>>

\* the calls of one turn of a route
LadderTurn(t) ==
    IF t < 0 THEN Walk(0 - t)
    ELSE Visit(t, CASE t = 12 -> TeaHouseTwelve
                    [] t = 4 -> [type |-> "MosqueAction", good_color |-> "RED"]
                    [] OTHER -> Generic)

\* the calls of the rounds from the given one on, each player's turn in order
RECURSIVE LadderCalls(_)
LadderCalls(round) ==
    IF round > Len(LadderRoutes[1]) THEN <<>>
    ELSE LadderTurn(LadderRoutes[1][round]) \o LadderTurn(LadderRoutes[2][round])
            \o LadderTurn(LadderRoutes[3][round]) \o LadderTurn(LadderRoutes[4][round])
            \o LadderTurn(LadderRoutes[5][round]) \o LadderCalls(round + 1)

\* the calls made up to Yellow's move to the Small Mosque in the last round
LadderScript ==
    LET played == LadderCalls(1)
    IN  SubSeq(played, 1, Len(played) - 4)

InitLadder ==
    Holds(NewGame(5, "ONE_GOOD", 1, 3))

\* the scripted calls one by one, then up to MaxLadderCalls calls of the menu
NextLadder ==
    \/ calls < Len(LadderScript) /\ Call(LadderScript[calls + 1])
    \/ Len(LadderScript) <= calls /\ calls < Len(LadderScript) + MaxLadderCalls /\ DoYieldTurn
    \/ Len(LadderScript) <= calls /\ calls < Len(LadderScript) + MaxLadderCalls /\ DoMove({3, 4}, BOOLEAN)
    \/ Len(LadderScript) <= calls /\ calls < Len(LadderScript) + MaxLadderCalls /\ DoPay
    \/ Len(LadderScript) <= calls /\ calls < Len(LadderScript) + MaxLadderCalls /\ DoSkipTile
    \/ Len(LadderScript) <= calls /\ calls < Len(LadderScript) + MaxLadderCalls /\ DoMosque({"RED", "GREEN"})

SpecLadder == InitLadder /\ [][NextLadder]_vars

Mosques == {"GREAT_MOSQUE", "SMALL_MOSQUE"}

\* C25: the price of every mosque tile colour starts at 2 and stays within 2..5;
\* each accepted purchase takes the price in goods of the colour from the
\* buyer's cart and raises the price by 1, the purchase at 5 withdrawing the
\* colour; nothing else changes a price, and a MosqueAction for a withdrawn
\* colour is rejected: four purchases of a colour succeed, then none
C25_MosquePrices ==
    /\ \A m \in Mosques : \A c \in DOMAIN tile_states[m].available_tiles :
            tile_states[m].available_tiles[c] = 2
    /\ [](\A m \in Mosques : \A c \in DOMAIN tile_states[m].available_tiles :
            tile_states[m].available_tiles[c] \in 2..5)
    /\ [][\A m \in Mosques : \A c \in Good :
            LET before == tile_states[m].available_tiles
                after == tile_states'[m].available_tiles
                buyer == current_player(State)
                asked == /\ last'.action.type = "MosqueAction" /\ last'.action.good_color = c
                         /\ player_tile(State) = m
            IN  IF asked /\ last'.accepted
                THEN /\ c \in DOMAIN before
                     /\ player_states'[buyer].cart_contents[c]
                            = player_states[buyer].cart_contents[c] - before[c]
                     /\ before[c] < 5 => (c \in DOMAIN after /\ after[c] = before[c] + 1)
                     /\ before[c] = 5 => c \notin DOMAIN after
                ELSE /\ c \in DOMAIN before <=> c \in DOMAIN after
                     /\ c \in DOMAIN before => after[c] = before[c]]_vars

\* four players own the red tile and the Small Mosque offers it no more; White,
\* who came with 2 fabric and paid Yellow, has just asked for it and was rejected
C25_Witness ==
    /\ \A p \in {"Red", "Green", "Blue", "Yellow"} : "RED" \in player_states[p].tiles
    /\ "RED" \notin DOMAIN tile_states["SMALL_MOSQUE"].available_tiles
    /\ last.action.type = "MosqueAction" /\ last.action.good_color = "RED"
    /\ ~last.accepted /\ last.phase = 3 /\ turn_log.paid
    /\ current_player(State) = "White" /\ player_tile(State) = "SMALL_MOSQUE"
    /\ player_states["White"].cart_contents["RED"] = 2

\* ---------------------------------------------------------------------------
\* Assistants called back: a 2-player game in which Red has left assistants
\* on the Fabric and Spice Warehouses (locations 3 and 8) and Green on the
\* Police Station and the Post Office (6 and 2), each a Move away from the
\* Fountain (7).

MaxFountainCalls == 6

FountainPrefix ==
    Visit(3, [type |-> "SkipTileAction"]) \o Visit(6, [type |-> "SkipTileAction"])
        \o Visit(8, [type |-> "SkipTileAction"]) \o Visit(2, [type |-> "SkipTileAction"])

\* the sets a FountainAction names: none, one or all of Red's or of Green's
\* assistants, and a set with a location (5) where nobody has one
ReturnSets == {{}, {3}, {3, 8}, {6}, {2, 6}, {3, 5}}

InitFountain ==
    Holds(Play(NewGame(2, "ONE_GOOD", 1, 3), FountainPrefix))

NextFountain ==
    \/ calls < MaxFountainCalls /\ DoYieldTurn
    \/ calls < MaxFountainCalls /\ DoMove({3, 7}, BOOLEAN)
    \/ calls < MaxFountainCalls /\ DoSkipTile
    \/ calls < MaxFountainCalls /\ DoGenericTile
    \/ calls < MaxFountainCalls /\ DoFountain(ReturnSets)

SpecFountain == InitFountain /\ [][NextFountain]_vars

\* the locations whose tile lists the player among its assistants
listed_on(states, player) ==
    {l \in Location : player \in states[location_map[l]].assistants}

\* C26: the generic action accepted on the Fountain returns all the player's
\* assistants: assistant_locations becomes empty, stack_size grows by their
\* number and no tile lists the player any more; an accepted FountainAction
\* returns exactly the set it names, and one naming a location outside
\* assistant_locations is rejected
C26_FountainReturns ==
    [][LET player == current_player(State)
           before == player_states[player]
           after == player_states'[player]
           generic == last'.action.type = "GenericTileAction" /\ player_tile(State) = "FOUNTAIN"
           explicit == last'.action.type = "FountainAction"
           returned == IF explicit THEN last'.action.assistant_locations
                       ELSE before.assistant_locations
       IN  /\ (explicit /\ ~(returned \subseteq before.assistant_locations)) => ~last'.accepted
           /\ ((generic \/ explicit) /\ last'.accepted) =>
                /\ after.assistant_locations = before.assistant_locations \ returned
                /\ after.stack_size = before.stack_size + Cardinality(returned)
                /\ listed_on(tile_states', player) = listed_on(tile_states, player) \ returned
                /\ generic => (after.assistant_locations = {} /\ listed_on(tile_states', player) = {})]_vars

\* Red, who walked to the Fountain with two assistants out, has just taken
\* the generic action there: all four are in the stack, none on a tile
C26_Witness ==
    /\ last.accepted /\ last.action.type = "GenericTileAction"
    /\ current_player(State) = "Red" /\ player_tile(State) = "FOUNTAIN"
    /\ player_states["Red"].stack_size = 4 /\ player_states["Red"].assistant_locations = {}
    /\ listed_on(tile_states, "Red") = {}
    /\ player_states["Green"].assistant_locations = {2, 6}

\* ---------------------------------------------------------------------------
\* The Caravansary's discard pile: a 2-player game in which everybody starts
\* with the five-lira card.  Red has played its card and, on the Caravansary
\* (location 10), drawn and discarded the one-good card and drawn the
\* extra-move card, so the pile holds the five-lira card under the one-good
\* card.  Red stands on the Black Market (9), Green on the Small Market (11),
\* each a Move from the Caravansary, and it is Green's turn.

MaxCaravansaryCalls == 7

CaravansaryPrefix ==
    <<[type |-> "FiveLiraCardAction"]>>
        \o Visit(10, [type |-> "CaravansaryAction", gains |-> <<"ONE_GOOD", "EXTRA_MOVE">>,
                      cost |-> "ONE_GOOD"])
        \o Visit(11, [type |-> "SkipTileAction"]) \o Visit(9, [type |-> "SkipTileAction"])

\* what a CaravansaryAction asks for: two cards off the pile, one off the pile
\* and one new, two new, or three off the pile
GainLists ==
    {<<"DISCARD", "DISCARD">>, <<"DISCARD", "NO_MOVE">>, <<"NO_MOVE", "NO_MOVE">>,
     <<"DISCARD", "DISCARD", "DISCARD">>}

InitCaravansary ==
    Holds(Play(NewGame(2, "FIVE_LIRA", 1, 3), CaravansaryPrefix))

NextCaravansary ==
    \/ calls < MaxCaravansaryCalls /\ DoYieldTurn
    \/ calls < MaxCaravansaryCalls /\ DoMove({10, 11}, BOOLEAN)
    \/ calls < MaxCaravansaryCalls /\ DoPay
    \/ calls < MaxCaravansaryCalls /\ DoFiveLiraCard
    \/ calls < MaxCaravansaryCalls /\ DoCaravansary(GainLists, {"FIVE_LIRA", "EXTRA_MOVE", "NO_MOVE"})

SpecCaravansary == InitCaravansary /\ [][NextCaravansary]_vars

caravansary == tile_states["CARAVANSARY"]

\* how many times x occurs in the sequence s
occurrences(s, x) == Cardinality({i \in 1..Len(s) : s[i] = x})

\* C27: the Caravansary's take_action(count) is rejected unless count is 0, 1
\* or 2, no discard is awaited and the pile holds count cards; accepted, it
\* takes the count cards discarded last off the pile, returns them and awaits
\* a discard; only a discard onto the pile ends the wait.  Seen from the game:
\* an accepted CaravansaryAction gives the player the cards named and the
\* cards off the pile, takes the card paid and puts it on the pile
C27_Caravansary ==
    [][LET player == current_player(State)
           pile == caravansary.discard_pile
           n == Len(pile)
           asked == last'.action.type = "CaravansaryAction" /\ player_tile(State) = "CARAVANSARY"
           gains == IF asked THEN last'.action.gains ELSE <<>>
           count == occurrences(gains, "DISCARD")
           taken == Caravansary_take_action(caravansary, count)
           admitted == count \in 0..2 /\ ~caravansary.awaiting_discard /\ n >= count
       IN  /\ ~taken.raised <=> admitted
           /\ admitted =>
                /\ taken.result = SubSeq(pile, n - count + 1, n)
                /\ taken.state.discard_pile = SubSeq(pile, 1, n - count)
                /\ taken.state.awaiting_discard
           /\ (asked /\ last'.accepted) =>
                /\ admitted
                /\ caravansary'.discard_pile = Append(SubSeq(pile, 1, n - count), last'.action.cost)
                /\ ~caravansary'.awaiting_discard
                /\ \A card \in DOMAIN player_states[player].hand :
                      player_states'[player].hand[card]
                         = player_states[player].hand[card] + occurrences(gains, card)
                              + occurrences(SubSeq(pile, n - count + 1, n), card)
                              - (IF card = last'.action.cost THEN 1 ELSE 0)
           /\ (caravansary.awaiting_discard /\ ~caravansary'.awaiting_discard) =>
                (Len(caravansary'.discard_pile) = n + 1
                    /\ SubSeq(caravansary'.discard_pile, 1, n) = pile)]_vars

\* Green has just taken the one-good card, discarded last, off the pile, drawn
\* the no-move card and paid with its five-lira card: the pile holds two
\* five-lira cards
C27_Witness ==
    /\ last.accepted /\ last.action.type = "CaravansaryAction"
    /\ last.action.gains = <<"DISCARD", "NO_MOVE">> /\ last.action.cost = "FIVE_LIRA"
    /\ current_player(State) = "Green"
    /\ player_states["Green"].hand["ONE_GOOD"] = 1 /\ player_states["Green"].hand["NO_MOVE"] = 1
    /\ player_states["Green"].hand["FIVE_LIRA"] = 0
    /\ caravansary.discard_pile = <<"FIVE_LIRA", "FIVE_LIRA">>
    /\ ~caravansary.awaiting_discard

-----------------------------------------------------------------------------
(* The post office and the rewards for captured family members: a game of   *)
(* three in which the post office is used five times, twice by family       *)
(* members who stay there, before Green comes back to it; Red, 14 lira      *)
(* richer, is two steps from the gemstone dealer (location 16).             *)

MaxOfficeCalls == 7

\* the rewards a player can ask for in this game
RewardChoices == {"Lira", "ONE_GOOD", "FIVE_LIRA"}

\* a turn on a tile where rivals stand: the move, the payment, the action, the end
PaidVisit(tile, action) ==
    <<[type |-> "Move", tile |-> tile, skip_assistant |-> FALSE], [type |-> "Pay"],
      action, [type |-> "YieldTurn"]>>

\* the police station action that sends the family member to the post office
FamilyToOffice ==
    [type |-> "PoliceStationAction", location |-> 2, action |-> Generic]

OfficeScript ==
    Visit(2, Generic) \o PaidVisit(2, Generic) \o PaidVisit(2, Generic)
      \o Visit(6, FamilyToOffice) \o Walk(1) \o PaidVisit(6, FamilyToOffice)
      \o Walk(11)

InitOffice ==
    Holds(NewGame(3, "ONE_GOOD", 1, 3))

\* the scripted calls one by one, then up to MaxOfficeCalls calls of the menu
NextOffice ==
    \/ calls < Len(OfficeScript) /\ Call(OfficeScript[calls + 1])
    \/ Len(OfficeScript) <= calls /\ calls < Len(OfficeScript) + MaxOfficeCalls /\ DoYieldTurn
    \/ Len(OfficeScript) <= calls /\ calls < Len(OfficeScript) + MaxOfficeCalls /\ DoMove({2, 3, 16}, BOOLEAN)
    \/ Len(OfficeScript) <= calls /\ calls < Len(OfficeScript) + MaxOfficeCalls /\ DoPay
    \/ Len(OfficeScript) <= calls /\ calls < Len(OfficeScript) + MaxOfficeCalls /\ DoSkipTile
    \/ Len(OfficeScript) <= calls /\ calls < Len(OfficeScript) + MaxOfficeCalls /\ DoGenericTile
    \/ Len(OfficeScript) <= calls /\ calls < Len(OfficeScript) + MaxOfficeCalls
          /\ DoChooseReward(RewardChoices)

SpecOffice == InitOffice /\ [][NextOffice]_vars

post_office == tile_states["POST_OFFICE"]

\* the post office after n consecutive calls of take_action
RECURSIVE consecutive(_, _)
consecutive(ts, n) ==
    IF n = 0 THEN ts ELSE consecutive(PostOffice_take_action(ts).state, n - 1)

\* the call just made used the post office: the player's own action there, or
\* the action of the family member sent there from the police station
office_action(action) ==
    \/ action.type = "GenericTileAction" /\ player_tile(State) = "POST_OFFICE"
    \/ /\ action.type = "PoliceStationAction" /\ player_tile(State) = "POLICE_STATION"
       /\ location_map[action.location] = "POST_OFFICE"
       /\ action.action.type = "GenericTileAction"

\* C28: the position of the post office is always in 0..4; an accepted post
\* office action advances it by 1 modulo 5 and hands the player exactly the
\* goods (as far as the cart holds them) and the lira that available() reported
\* before the call; nothing else moves the position; five consecutive calls of
\* take_action bring the position and the offer back
C28_PostOffice ==
    /\ [](/\ post_office.position \in 0..4
          /\ consecutive(post_office, 5) = post_office
          /\ PostOffice_available(consecutive(post_office, 5)) = PostOffice_available(post_office))
    /\ [][LET player == current_player(State)
              before == player_states[player]
              after == player_states'[player]
              mail == PostOffice_available(post_office)
              used == last'.accepted /\ office_action(last'.action)
          IN  /\ used =>
                   /\ PostOffice_take_action(post_office).result = mail
                   /\ post_office'.position = (post_office.position + 1) % 5
                   /\ after.lira = before.lira + mail.lira
                   /\ \A good \in Good :
                         after.cart_contents[good] =
                            IF good \in mail.goods /\ before.cart_contents[good] < before.cart_max
                            THEN before.cart_contents[good] + 1
                            ELSE before.cart_contents[good]
              /\ ~used => post_office'.position = post_office.position]_vars

\* Red's family member has just used the post office at position 3, taking the
\* fabric, the jewelry and 4 lira offered there, and the position is now 4
C28_Witness ==
    /\ last.accepted /\ last.action = FamilyToOffice
    /\ current_player(State) = "Red"
    /\ post_office.position = 4
    /\ player_states["Red"].lira = 12
    /\ player_states["Red"].cart_contents = [good \in Good |-> 1]
    /\ player_states["Red"].family_location = 2

\* the game as it stands, with the turn in the given phase
in_phase(phase) == [State EXCEPT !.turn_state.current_phase = phase]

\* C29: outstanding_reward_choices is never negative; take_action accepts a
\* ChooseReward exactly when the counter is positive, whatever the phase of
\* the turn, and leaves the turn state alone; an accepted ChooseReward gives the
\* current player 3 lira or one copy of the chosen card and nothing else, and
\* takes 1 off the counter; a rejected one changes nothing
C29_ChooseReward ==
    /\ [](outstanding_reward_choices >= 0)
    /\ [](\A phase \in 1..4, choice \in RewardChoices :
             LET g == take_action(in_phase(phase), [type |-> "ChooseReward", choice |-> choice])
             IN  /\ ~g.raised <=> outstanding_reward_choices > 0
                 /\ g.turn_state = in_phase(phase).turn_state)
    /\ [][last'.action.type = "ChooseReward" =>
            LET player == current_player(State)
                choice == last'.action.choice
            IN  /\ last'.accepted <=> outstanding_reward_choices > 0
                /\ last'.accepted =>
                     /\ outstanding_reward_choices' = outstanding_reward_choices - 1
                     /\ player_states' =
                          IF choice = "Lira"
                          THEN [player_states EXCEPT ![player].lira = @ + 3]
                          ELSE [player_states EXCEPT ![player].hand[choice] = @ + 1]
                /\ ~last'.accepted =>
                     /\ outstanding_reward_choices' = outstanding_reward_choices
                     /\ player_states' = player_states
                /\ turn_state' = turn_state /\ tile_states' = tile_states
                /\ completed' = completed]_vars

\* Green, back at the post office, has captured the family members of Red and
\* of Blue and has taken 3 lira for the one and a five-lira card for the other
C29_Witness ==
    /\ last.accepted /\ last.action.type = "ChooseReward"
    /\ current_player(State) = "Green"
    /\ outstanding_reward_choices = 0
    /\ player_states["Green"].lira = 11
    /\ player_states["Green"].hand["FIVE_LIRA"] = 1
    /\ player_states["Red"].family_location = 6 /\ player_states["Blue"].family_location = 6
    /\ tile_states["POST_OFFICE"].family_members = {}

\* the score lists a and b are in descending lexicographic order, or equal
at_least(a, b) ==
    \/ a = b
    \/ a[1] > b[1]
    \/ a[1] = b[1] /\ a[2] > b[2]
    \/ a[1] = b[1] /\ a[2] = b[2] /\ a[3] > b[3]
    \/ a[1] = b[1] /\ a[2] = b[2] /\ a[3] = b[3] /\ a[4] > b[4]

\* (rubies, lira, goods in the cart, cards in hand) of a player
four_values(player) ==
    <<player_states[player].rubies, player_states[player].lira,
      Total(player_states[player].cart_contents), Total(player_states[player].hand)>>

\* C30: ranking() lists every player once, in descending lexicographic order
\* of (rubies, lira, goods in the cart, cards in hand), each with exactly that
\* 4-tuple as its score list, so that players equal on the four values have
\* identical score lists
C30_Ranking ==
    LET listed == ranking(State)
        n == Len(turn_state.players)
    IN  /\ Len(listed) = n
        /\ {listed[k].player : k \in 1..n} = {turn_state.players[i] : i \in 1..n}
        /\ \A k \in 1..n : listed[k].score = four_values(listed[k].player)
        /\ \A k \in 1..(n - 1) : at_least(listed[k].score, listed[k + 1].score)
        /\ \A j, k \in 1..n :
              four_values(listed[j].player) = four_values(listed[k].player)
                 => listed[j].score = listed[k].score

\* Green's two rewards of 3 lira have brought Green level with Red on all four
\* values: both are listed with the score 0, 14, 4, 1, ahead of Blue
C30_Witness ==
    /\ four_values("Green") = <<0, 14, 4, 1>>
    /\ four_values("Red") = four_values("Green")
    /\ ranking(State) = << [player |-> "Green", score |-> <<0, 14, 4, 1>>],
                           [player |-> "Red", score |-> <<0, 14, 4, 1>>],
                           [player |-> "Blue", score |-> <<0, 6, 4, 1>>] >>

-----------------------------------------------------------------------------
(* Rejected calls and the flags of the game *)

\* C34: a rejected YieldTurn leaves completed as it was before the call
C34_RejectedYieldTurn ==
    [][(last'.action.type = "YieldTurn" /\ ~last'.accepted) => completed' = completed]_vars

\* C35: family_member_acting is false after every call, accepted or rejected,
\* and a PoliceStationAction called at the Police Station, even one whose
\* nested action is rejected, leaves the player at the Police Station
C35_FamilyMemberActing ==
    /\ [](~family_member_acting)
    /\ [][(last'.action.type = "PoliceStationAction" /\ player_tile(State) = "POLICE_STATION") =>
             LET player == current_player(State)
             IN  /\ player_states'[player].location = police_station
                 /\ player \in tile_states'["POLICE_STATION"].players]_vars

-----------------------------------------------------------------------------
(* The family member sent out from the Police Station *)

\* the locations whose tile lists the player among the players standing on it
standing_on(states, player) ==
    {l \in Location : player \in states[location_map[l]].players}

\* C36: after an accepted PoliceStationAction the player stands at the Police
\* Station and on no other tile, the family member is at the destination named,
\* which is not the Police Station, the phase is 4, and the family members of
\* the other players are where they were, with no reward outstanding for them
C36_PoliceStationAction ==
    [][(last'.accepted /\ last'.action.type = "PoliceStationAction") =>
          LET player == current_player(State)
              destination == last'.action.location
          IN  /\ player_states'[player].location = police_station
              /\ standing_on(tile_states', player) = {police_station}
              /\ destination # police_station
              /\ player_states'[player].family_location = destination
              /\ player \in tile_states'[location_map[destination]].family_members
              /\ player \notin tile_states'["POLICE_STATION"].family_members
              /\ turn_state'.current_phase = 4
              /\ turn_state'.current_player_idx = turn_state.current_player_idx
              /\ \A p \in DOMAIN player_states \ {player} :
                    /\ player_states'[p].family_location = player_states[p].family_location
                    /\ \A l \in Location :
                          p \in tile_states'[location_map[l]].family_members
                             <=> p \in tile_states[location_map[l]].family_members
              /\ outstanding_reward_choices' = outstanding_reward_choices]_vars

\* Green has just sent its family member to the Fruit Warehouse (location 5),
\* where the family member of Red was and still is
C36_Witness ==
    /\ last.accepted /\ last.action.type = "PoliceStationAction" /\ last.action.location = 5
    /\ current_player(State) = "Green"
    /\ player_states["Green"].location = police_station
    /\ tile_states["FRUIT_WAREHOUSE"].family_members = {"Red", "Green"}
    /\ tile_states["FRUIT_WAREHOUSE"].players = {}
    /\ outstanding_reward_choices = 0
    /\ turn_state.current_phase = 4

-----------------------------------------------------------------------------
(* The two views of the board *)

\* C38: the sets of the tiles and the fields of the players agree: a player is
\* in the players set of the tile at a location iff that is the player's
\* location, in its family_members set iff that is the player's
\* family_location, and in its assistants set iff the location is among the
\* player's assistant_locations
C38_BoardViewsAgree ==
    \A p \in DOMAIN player_states, l \in Location :
        /\ p \in tile_states[location_map[l]].players <=> player_states[p].location = l
        /\ p \in tile_states[location_map[l]].family_members
              <=> player_states[p].family_location = l
        /\ p \in tile_states[location_map[l]].assistants
              <=> l \in player_states[p].assistant_locations

\* Blue, with an assistant on the Fruit Warehouse (location 5), has just
\* captured Red's family member there: Red, standing at the Police Station with
\* an assistant, has its family member back on that tile
C38_Witness ==
    /\ last.accepted /\ last.action.type = "SkipTileAction"
    /\ current_player(State) = "Blue"
    /\ player_states["Blue"].location = 5 /\ player_states["Blue"].assistant_locations = {5}
    /\ player_states["Red"].location = police_station
    /\ player_states["Red"].assistant_locations = {police_station}
    /\ player_states["Red"].family_location = police_station
    /\ outstanding_reward_choices = 1
    /\ tile_states["POLICE_STATION"].family_members = {"Red", "Green", "Blue"}

-----------------------------------------------------------------------------
(* One tile action per turn *)

\* C37: a tile action (facility action, SkipTileAction, DoubleCardAction,
\* SellAnyCardAction, GreenTileAction, or PoliceStationAction with its nested
\* action) is accepted in phase 3 only and leaves the turn in phase 4; phase 4
\* lasts until a YieldTurn is accepted; and every tile action called in phase 4
\* is rejected and changes nothing.  So after one accepted tile action no
\* further one takes effect before the next YieldTurn
C37_OneTileActionPerTurn ==
    [][/\ (last'.accepted /\ last'.action.type \in TileActionTypes) =>
             /\ turn_state.current_phase = 3 /\ ~turn_state.yield_required
             /\ turn_state'.current_phase = 4
             /\ turn_state'.current_player_idx = turn_state.current_player_idx
       /\ turn_state.current_phase = 4 =>
             \/ /\ turn_state'.current_phase = 4
                /\ turn_state'.current_player_idx = turn_state.current_player_idx
             \/ last'.accepted /\ last'.action.type = "YieldTurn"
       /\ (turn_state.current_phase = 4 /\ last'.action.type \in TileActionTypes) =>
             ~last'.accepted /\ UNCHANGED game]_vars

\* Red has filled its cart with fabric at the Fabric Warehouse (location 3) and
\* has then called the action of the tile again, in vain
C37_Witness ==
    /\ ~last.accepted /\ last.action.type = "GenericTileAction" /\ last.phase = 4
    /\ current_player(State) = "Red"
    /\ turn_state.current_phase = 4
    /\ player_states["Red"].location = 3
    /\ player_states["Red"].cart_contents["RED"] = 2
    /\ calls = 3

-----------------------------------------------------------------------------
(* The governor, the smuggler and the return-assistant card: games of two   *)
(* players holding the return-assistant card, with the governor and the     *)
(* smuggler both at the Fabric Warehouse (location 3), two steps from the   *)
(* Fountain.                                                                *)

MaxEncounterCalls == 8

InitEncounter ==
    Holds(NewGame(2, "RETURN_ASSISTANT", 3, 3))

NextEncounter ==
    \/ calls < MaxEncounterCalls /\ DoYieldTurn
    \/ calls < MaxEncounterCalls /\ DoMove({3, 7}, BOOLEAN)
    \/ calls < MaxEncounterCalls /\ DoPay
    \/ calls < MaxEncounterCalls /\ DoGenericTile
    \/ calls < MaxEncounterCalls /\ DoReturnAssistantCard({3})
    \/ calls < MaxEncounterCalls
          /\ DoEncounterGovernor({"ONE_GOOD"}, {"Pay", "RETURN_ASSISTANT"}, {<<1, 1>>, <<3, 4>>})
    \/ calls < MaxEncounterCalls
          /\ DoEncounterSmuggler({"BLUE"}, {"Pay", "RED"}, {<<1, 1>>, <<6, 5>>})

SpecEncounter == InitEncounter /\ [][NextEncounter]_vars

\* the current player holds the return-assistant card and has an assistant at
\* the location the action names
card_and_assistant(action) ==
    LET player == current_player(State)
    IN  /\ player_states[player].hand["RETURN_ASSISTANT"] >= 1
        /\ action.from_tile \in player_states[player].assistant_locations
        /\ player \in tile_states[location_map[action.from_tile]].assistants

\* C31 as stated: with yield_required false, a ReturnAssistantCardAction of a
\* player who holds the card and has an assistant at the location named is
\* accepted in every phase
C31_ReturnAssistantAnyPhase ==
    [][(/\ last'.action.type = "ReturnAssistantCardAction"
        /\ ~turn_state.yield_required
        /\ card_and_assistant(last'.action)) => last'.accepted]_vars

\* C31 amended: a ReturnAssistantCardAction is accepted exactly when it is
\* called in phase 1 by a player who holds the card and has an assistant at the
\* location named; it is rejected in phases 2, 3 and 4.  When accepted it takes
\* the card, puts the assistant on the stack and leaves the phase at 1
C31_ReturnAssistantPhaseOne ==
    [][last'.action.type = "ReturnAssistantCardAction" =>
          LET player == current_player(State)
              from_tile == last'.action.from_tile
          IN  /\ last'.accepted <=>
                    (turn_state.current_phase = 1 /\ card_and_assistant(last'.action))
              /\ last'.accepted =>
                    /\ turn_state' = turn_state
                    /\ player_states'[player].hand["RETURN_ASSISTANT"]
                          = player_states[player].hand["RETURN_ASSISTANT"] - 1
                    /\ player_states'[player].stack_size = player_states[player].stack_size + 1
                    /\ player_states'[player].assistant_locations
                          = player_states[player].assistant_locations \ {from_tile}
                    /\ player \notin tile_states'[location_map[from_tile]].assistants]_vars

\* Red, standing on the Fabric Warehouse (location 3) where it left an
\* assistant a turn ago, has played the card at the start of its turn and has
\* its four assistants on the stack again
C31_Witness ==
    /\ last.accepted /\ last.action.type = "ReturnAssistantCardAction" /\ last.phase = 1
    /\ current_player(State) = "Red"
    /\ turn_state.current_phase = 1
    /\ player_states["Red"].location = 3
    /\ player_states["Red"].stack_size = 4
    /\ player_states["Red"].assistant_locations = {}
    /\ player_states["Red"].hand["RETURN_ASSISTANT"] = 0


\* ---------------------------------------------------------------------------
\* C32: encounters with the governor and the smuggler
\* ---------------------------------------------------------------------------

encounter(action) == action.type \in {"EncounterGovernor", "EncounterSmuggler"}

\* the non-player character the action names stands on the current player's tile
npc_here(action) ==
    IF action.type = "EncounterGovernor"
    THEN tile_states[player_tile(State)].governor
    ELSE tile_states[player_tile(State)].smuggler

\* the current player can pay what the action names: two lira, a card in hand
\* (governor) or a good in the cart (smuggler)
cost_payable(action) ==
    LET ps == player_states[current_player(State)]
    IN  IF action.cost = "Pay" THEN ps.lira >= 2
        ELSE IF action.type = "EncounterGovernor" THEN ps.hand[action.cost] >= 1
        ELSE ps.cart_contents[action.cost] >= 1

\* C32: an encounter is accepted only in phase 4 and leaves the turn state as
\* it was (phase 4, same player, no yield required), so it can be repeated in
\* the same turn; in phase 4 it is accepted whenever the governor or smuggler
\* it names is on the player's tile and the cost can be paid
C32_EncountersKeepPhase ==
    [][encounter(last'.action) =>
          /\ last'.accepted =>
                /\ turn_state.current_phase = 4
                /\ turn_state' = turn_state
                /\ ~turn_state'.yield_required
          /\ (turn_state.current_phase = 4 /\ npc_here(last'.action) /\ cost_payable(last'.action))
                => last'.accepted]_vars

\* Red, in one turn on the Fabric Warehouse, has met the governor twice (once
\* for two lira, once for its return-assistant card) and then the smuggler
\* (a fabric for a jewelry), and is still in phase 4
C32_Witness ==
    /\ last.accepted /\ last.action.type = "EncounterSmuggler" /\ last.phase = 4
    /\ calls = 5
    /\ current_player(State) = "Red"
    /\ turn_state.current_phase = 4
    /\ player_states["Red"].lira = 0
    /\ player_states["Red"].hand["ONE_GOOD"] = 2
    /\ player_states["Red"].hand["RETURN_ASSISTANT"] = 0
    /\ player_states["Red"].cart_contents["BLUE"] = 1
    /\ player_states["Red"].cart_contents["RED"] = 1


\* ---------------------------------------------------------------------------
\* C39: where the governor and the smuggler stand
\* ---------------------------------------------------------------------------

governor_tiles(states) == {tile \in DOMAIN states : states[tile].governor}

smuggler_tiles(states) == {tile \in DOMAIN states : states[tile].smuggler}

\* the tile the roll table gives for the sum of the two dice of the roll
rolled_tile(roll) == ROLL_LOCATIONS[roll[1] + roll[2]]

\* C39: in every reachable state exactly one tile holds the governor and
\* exactly one tile holds the smuggler; an encounter is accepted only when the
\* character it names is on the current player's tile, and after an accepted
\* encounter that character is on the tile the roll table gives for the sum of
\* the two dice of the action's roll (which may be the tile it was on), while
\* the other character has not moved
C39_GovernorAndSmuggler ==
    /\ [](Cardinality(governor_tiles(tile_states)) = 1
            /\ Cardinality(smuggler_tiles(tile_states)) = 1)
    /\ [][(encounter(last'.action) /\ last'.accepted) =>
             /\ npc_here(last'.action)
             /\ IF last'.action.type = "EncounterGovernor"
                THEN /\ governor_tiles(tile_states') = {rolled_tile(last'.action.roll)}
                     /\ smuggler_tiles(tile_states') = smuggler_tiles(tile_states)
                ELSE /\ smuggler_tiles(tile_states') = {rolled_tile(last'.action.roll)}
                     /\ governor_tiles(tile_states') = governor_tiles(tile_states)]_vars

\* Red met both on the Fabric Warehouse: the governor (dice 3 and 4) has gone
\* to the Fountain and the smuggler (dice 6 and 5) to the Small Market
C39_Witness ==
    /\ last.accepted /\ last.action.type = "EncounterSmuggler"
    /\ last.action.roll = <<6, 5>>
    /\ player_states["Red"].location = 3
    /\ governor_tiles(tile_states) = {"FOUNTAIN"}
    /\ smuggler_tiles(tile_states) = {"SMALL_MARKET"}


-----------------------------------------------------------------------------
(* SpecRedTile: a game of 2 players who start with the sell-any card.  In   *)
(* the scripted calls Red buys the red mosque tile at the Small Mosque (4)  *)
(* and fills its cart with spice and fabric, Green sells its spice with its *)
(* card at the Small Market (11) and leaves a demand for fruit there, and   *)
(* both walk to the Caravansary (10), from where                            *)
(* the Black Market (9), the Small Market (11) and the Tea House (12) are   *)
(* within a move.  Then the caller tries the dice of the Tea House and the  *)
(* Black Market, as rolled and as changed with the red tile, and the        *)
(* sell-any card.                                                           *)

MaxRedTileCalls == 6

SellAny(goods, new_demand) ==
    [type |-> "SellAnyCardAction",
     action |-> [type |-> "MarketAction", goods |-> goods, new_demand |-> new_demand]]

\* a demand for fruit and one fabric, no spice
FruitDemand == [good \in {"RED", "YELLOW"} |-> IF good = "RED" THEN 1 ELSE 4]

RedTileScript ==
    Visit(3, Generic) \o Visit(8, Generic)
      \o Visit(4, [type |-> "MosqueAction", good_color |-> "RED"])
      \o Visit(11, SellAny([good \in {"GREEN"} |-> 2], FruitDemand))
      \o Visit(8, Generic) \o Walk(14)
      \o Visit(3, Generic) \o Walk(11)
      \o Walk(7) \o Walk(14)
      \o Walk(10) \o Walk(10)

\* the dice as they fell and what a red tile is said to have made of them: for
\* 2 and 5 the first three final rolls keep one die and show a four, for 4 and
\* 6 the fourth does
InitialRolls == {<<2, 5>>, <<4, 6>>}

FinalRolls == {<<2, 4>>, <<5, 4>>, <<4, 2>>, <<4, 6>>, <<6, 6>>}

\* a method and whether its string is the class attribute itself
RedTileMethods == {<<"TO_FOUR", TRUE>>, <<"TO_FOUR", FALSE>>, <<"REROLL", TRUE>>}

RedTileRolls ==
    {[type |-> "Roll", roll |-> <<3, 4>>], [type |-> "Roll", roll |-> <<6, 5>>]}
      \cup {[type |-> "RedTileAction", initial_roll |-> initial_roll, final_roll |-> final_roll,
             method |-> m[1], method_is_constant |-> m[2]] :
                initial_roll \in InitialRolls, final_roll \in FinalRolls, m \in RedTileMethods}

\* the goods offered with the sell-any card: none, one to four of the spice
\* and fabric in Red's cart, and a fruit, which nobody has
AnySales ==
    {[good \in {"GREEN"} |-> 0], [good \in {"GREEN"} |-> 1], [good \in {"GREEN"} |-> 2],
     [good \in {"RED", "GREEN"} |-> IF good = "RED" THEN 1 ELSE 2],
     [good \in {"RED", "GREEN"} |-> 2],
     [good \in {"YELLOW"} |-> 1]}

DoTeaHouse(calls_made, rolls) ==
    \E call \in calls_made, roll \in rolls :
        Call([type |-> "TeaHouseAction", call |-> call, roll |-> roll])

DoBlackMarketRoll(goods, rolls) ==
    \E good \in goods, roll \in rolls :
        Call([type |-> "BlackMarketAction", good |-> good, roll |-> roll])

InitRedTile ==
    Holds(NewGame(2, "SELL_ANY", 1, 16))

\* the scripted calls one by one, then up to MaxRedTileCalls calls of the menu
NextRedTile ==
    \/ calls < Len(RedTileScript) /\ Call(RedTileScript[calls + 1])
    \/ Len(RedTileScript) <= calls /\ calls < Len(RedTileScript) + MaxRedTileCalls /\ DoYieldTurn
    \/ Len(RedTileScript) <= calls /\ calls < Len(RedTileScript) + MaxRedTileCalls
          /\ DoMove({9, 11, 12}, BOOLEAN)
    \/ Len(RedTileScript) <= calls /\ calls < Len(RedTileScript) + MaxRedTileCalls /\ DoPay
    \/ Len(RedTileScript) <= calls /\ calls < Len(RedTileScript) + MaxRedTileCalls
          /\ DoTeaHouse({7}, RedTileRolls)
    \/ Len(RedTileScript) <= calls /\ calls < Len(RedTileScript) + MaxRedTileCalls
          /\ DoBlackMarketRoll({"YELLOW"}, RedTileRolls)
    \/ Len(RedTileScript) <= calls /\ calls < Len(RedTileScript) + MaxRedTileCalls
          /\ DoSellAnyCard(AnySales, {DefaultSmallDemand, ShortDemand})

SpecRedTile == InitRedTile /\ [][NextRedTile]_vars


\* ---------------------------------------------------------------------------
\* C33: the red mosque tile and the dice
\* ---------------------------------------------------------------------------

\* final is initial with one die replaced by a four, the dice in either order
one_die_to_four(initial, final) ==
    \E i \in 1..2 : final \in {<<initial[i], 4>>, <<4, initial[i]>>}

\* what the Black Market adds in jewelry for a total of the dice
jewelry_for(total) ==
    IF total >= 11 THEN 3 ELSE IF total >= 9 THEN 2 ELSE IF total >= 7 THEN 1 ELSE 0

\* the tile action has been paid out on the total: the Tea House pays the call
\* if the total reaches it and 2 lira otherwise, the Black Market adds the
\* jewelry of the total as far as the cart has room
paid_on(action, total) ==
    LET player == current_player(State)
        before == player_states[player]
        after == player_states'[player]
    IN  IF action.type = "TeaHouseAction"
        THEN after.lira = before.lira + (IF total >= action.call THEN action.call ELSE 2)
        ELSE after.cart_contents["BLUE"] =
                IF before.cart_contents["BLUE"] + jewelry_for(total) <= before.cart_max
                THEN before.cart_contents["BLUE"] + jewelry_for(total)
                ELSE before.cart_max

\* C33: a Black Market or Tea House action whose roll is a RedTileAction is
\* accepted only if the player owns the red mosque tile and, when the method
\* is 'change a die to four', the final roll is the initial roll with one die
\* replaced by a four (in either order); the value paid on is the sum of the
\* final roll
C33_RedTileRoll ==
    [][(/\ last'.action.type \in {"BlackMarketAction", "TeaHouseAction"}
        /\ last'.action.roll.type = "RedTileAction"
        /\ last'.accepted) =>
          LET roll == last'.action.roll
          IN  /\ "RED" \in player_states[current_player(State)].tiles
              /\ roll.method = "TO_FOUR" => one_die_to_four(roll.initial_roll, roll.final_roll)
              /\ paid_on(last'.action, roll.final_roll[1] + roll.final_roll[2])]_vars


\* ---------------------------------------------------------------------------
\* C40: the sell-any card
\* ---------------------------------------------------------------------------

\* the current player holds every good of the counter
goods_held(goods) ==
    \A good \in DOMAIN goods :
        player_states[current_player(State)].cart_contents[good] >= goods[good]

\* C40: SellAnyCardAction is accepted only if the player stands on the Small
\* Market and holds the sell-any card; in phase 3 with the card, on the Small
\* Market, the goods in the cart and a new demand of five goods it is accepted
\* whatever the market's demand is; an accepted sale of n goods takes the card
\* and the goods, pays 2 + 3 + ... + (n + 1) lira, the price of a Small Market
\* sale of n goods, and leaves the supplied demand, which sums to 5, on the
\* market
C40_SellAnyCard ==
    [][last'.action.type = "SellAnyCardAction" =>
          LET player == current_player(State)
              goods == last'.action.action.goods
              new_demand == last'.action.action.new_demand
              before == player_states[player]
              after == player_states'[player]
          IN  /\ last'.accepted =>
                    /\ player_tile(State) = "SMALL_MARKET"
                    /\ before.hand["SELL_ANY"] >= 1
                    /\ after.hand["SELL_ANY"] = before.hand["SELL_ANY"] - 1
                    /\ \A good \in Good :
                          after.cart_contents[good] = before.cart_contents[good] - Count(goods, good)
                    /\ after.lira = before.lira + sale_price(2, Total(goods))
                    /\ Total(new_demand) = 5
                    /\ tile_states'["SMALL_MARKET"].demand = new_demand
              /\ (/\ turn_state.current_phase = 3 /\ ~turn_state.yield_required
                  /\ player_tile(State) = "SMALL_MARKET"
                  /\ before.hand["SELL_ANY"] >= 1
                  /\ goods_held(goods)
                  /\ Total(new_demand) = 5) => last'.accepted]_vars

\* Red has sold two fabric and two spice with its card for 2 + 3 + 4 + 5 = 14
\* lira at the Small Market, which wanted one fabric and no spice
C40_Witness ==
    /\ last.accepted /\ last.action.type = "SellAnyCardAction"
    /\ Total(last.action.action.goods) = 4
    /\ current_player(State) = "Red"
    /\ player_states["Red"].location = 11
    /\ player_states["Red"].lira = 16
    /\ player_states["Red"].hand["SELL_ANY"] = 0
    /\ player_states["Red"].cart_contents["RED"] = 0
    /\ player_states["Red"].cart_contents["GREEN"] = 0
    /\ tile_states["SMALL_MARKET"].demand = DefaultSmallDemand

====
